---- MODULE Spec2Model ----
(***************************************************************************)
(* Model of the anesthetic gas sensor frame library (gas_sensor.c).        *)
(*                                                                         *)
(* The source holds two revisions of the library.  The handle-based        *)
(* revision (serial handle, receive buffer, gas_sensor_read_frame) keeps   *)
(* the source's names here; the parse-only revision, which defines the     *)
(* same functions again, carries the prefix po_.                           *)
(*                                                                         *)
(* C arrays are sequences; Idx(a, i) is the C expression a[i].  A float    *)
(* is held exactly as an integer number of thousandths, so raw / 100.0f    *)
(* is raw * 10 and -1.0f is -1000.  A NULL output pointer is a FALSE       *)
(* "has" flag next to the value the pointer would address.                 *)
(***************************************************************************)
EXTENDS Integers, Sequences, FiniteSets, TLC

(* ------------------------------------------------------------------ *)
(* Protocol constants (gas_sensor.h)                                    *)
(* ------------------------------------------------------------------ *)
GAS_SENSOR_OK == 0
GAS_SENSOR_ERR_INVALID_FRAME == -1
GAS_SENSOR_ERR_CHECKSUM == -2
GAS_SENSOR_ERR_SERIAL_READ == -4
GAS_SENSOR_ERR_CALLBACK == -6
GAS_SENSOR_ERR_NULL_PARAM == -7

GAS_SENSOR_FRAME_SIZE == 21
GAS_SENSOR_FLAG1 == 170
GAS_SENSOR_FLAG2 == 85
GAS_SENSOR_FRAME_ID_MAX == 10
GAS_SENSOR_NO_DATA == 255
\* -1.0f, in thousandths
GAS_SENSOR_CONC_INVALID == -1000

Idx(a, i) == a[i + 1]

\* (byte & mask) != 0 for a one-bit mask
BitSet(byte, mask) == (byte \div mask) % 2 = 1

(* ------------------------------------------------------------------ *)
(* Helper functions, handle-based revision                              *)
(* ------------------------------------------------------------------ *)
RECURSIVE SumBytes16(_, _, _)
\* the loop "for (i = lo; i < hi; i++) sum += frame_data[i]" on a uint16_t
SumBytes16(frame_data, lo, hi) ==
    IF lo >= hi THEN 0
    ELSE (SumBytes16(frame_data, lo, hi - 1) + Idx(frame_data, hi - 1)) % 65536

\* mutant: the one's complement, without the "+ 1"
calculate_checksum_ones_complement(frame_data) ==
    LET sum == SumBytes16(frame_data, 2, 20)
    IN  ((0 - sum) - 1) % 256

\* (~sum + 1) & 0xFF: sum is promoted to int, ~sum = -sum - 1
calculate_checksum(frame_data) ==
    LET sum == SumBytes16(frame_data, 2, 20)
    IN  (((0 - sum) - 1) + 1) % 256

parse_concentration(raw_value) ==
    IF raw_value = GAS_SENSOR_NO_DATA THEN GAS_SENSOR_CONC_INVALID
    ELSE raw_value * 1000

parse_uint16_be(data) == ((Idx(data, 0) * 256) % 65536) + Idx(data, 1)

\* &a[k]: the array seen from element k on
From(a, k) == SubSeq(a, k + 1, Len(a))

parse_insp_vals(slow_data) ==
    [co2 |-> parse_concentration(Idx(slow_data, 0)),
     n2o |-> parse_concentration(Idx(slow_data, 1)),
     aa1 |-> parse_concentration(Idx(slow_data, 2)),
     aa2 |-> parse_concentration(Idx(slow_data, 3)),
     o2  |-> parse_concentration(Idx(slow_data, 4))]

parse_exp_vals(slow_data) ==
    [co2 |-> parse_concentration(Idx(slow_data, 0)),
     n2o |-> parse_concentration(Idx(slow_data, 1)),
     aa1 |-> parse_concentration(Idx(slow_data, 2)),
     aa2 |-> parse_concentration(Idx(slow_data, 3)),
     o2  |-> parse_concentration(Idx(slow_data, 4))]

parse_mom_vals(slow_data) ==
    [co2 |-> parse_concentration(Idx(slow_data, 0)),
     n2o |-> parse_concentration(Idx(slow_data, 1)),
     aa1 |-> parse_concentration(Idx(slow_data, 2)),
     aa2 |-> parse_concentration(Idx(slow_data, 3)),
     o2  |-> parse_concentration(Idx(slow_data, 4))]

parse_gen_vals(slow_data) ==
    [resp_rate |-> IF Idx(slow_data, 0) = GAS_SENSOR_NO_DATA
                   THEN GAS_SENSOR_NO_DATA ELSE Idx(slow_data, 0),
     time_since_breath |-> IF Idx(slow_data, 1) = GAS_SENSOR_NO_DATA
                           THEN GAS_SENSOR_NO_DATA ELSE Idx(slow_data, 1),
     primary_agent |-> IF Idx(slow_data, 2) = GAS_SENSOR_NO_DATA
                       THEN 0 ELSE Idx(slow_data, 2),
     secondary_agent |-> IF Idx(slow_data, 3) = GAS_SENSOR_NO_DATA
                         THEN 0 ELSE Idx(slow_data, 3),
     atm_pressure |->
        IF Idx(slow_data, 4) = GAS_SENSOR_NO_DATA \/ Idx(slow_data, 5) = GAS_SENSOR_NO_DATA
        THEN GAS_SENSOR_CONC_INVALID
        ELSE parse_uint16_be(From(slow_data, 4)) * 100]

parse_sensor_regs(slow_data) ==
    [mode |-> Idx(slow_data, 0) % 8,
     error |-> [sw_error     |-> BitSet(Idx(slow_data, 2), 1),
                hw_error     |-> BitSet(Idx(slow_data, 2), 2),
                motor_fail   |-> BitSet(Idx(slow_data, 2), 4),
                uncalibrated |-> BitSet(Idx(slow_data, 2), 8)],
     adapter |-> [replace_adapter |-> BitSet(Idx(slow_data, 3), 1),
                  no_adapter      |-> BitSet(Idx(slow_data, 3), 2),
                  o2_clogged      |-> BitSet(Idx(slow_data, 3), 4)],
     data_valid |-> [co2_out_of_range          |-> BitSet(Idx(slow_data, 4), 1),
                     n2o_out_of_range          |-> BitSet(Idx(slow_data, 4), 2),
                     agent_out_of_range        |-> BitSet(Idx(slow_data, 4), 4),
                     o2_out_of_range           |-> BitSet(Idx(slow_data, 4), 8),
                     temp_out_of_range         |-> BitSet(Idx(slow_data, 4), 16),
                     pressure_out_of_range     |-> BitSet(Idx(slow_data, 4), 32),
                     zero_calibration_required |-> BitSet(Idx(slow_data, 4), 64)]]

parse_config_data(slow_data) ==
    [o2_fitted          |-> BitSet(Idx(slow_data, 0), 1),
     co2_fitted         |-> BitSet(Idx(slow_data, 0), 2),
     n2o_fitted         |-> BitSet(Idx(slow_data, 0), 4),
     halothane_fitted   |-> BitSet(Idx(slow_data, 0), 8),
     enflurane_fitted   |-> BitSet(Idx(slow_data, 0), 16),
     isoflurane_fitted  |-> BitSet(Idx(slow_data, 0), 32),
     sevoflurane_fitted |-> BitSet(Idx(slow_data, 0), 64),
     desflurane_fitted  |-> BitSet(Idx(slow_data, 0), 128),
     hw_revision        |-> Idx(slow_data, 1),
     sw_revision        |-> parse_uint16_be(From(slow_data, 2)),
     id_config          |-> BitSet(Idx(slow_data, 5), 1),
     comm_protocol_rev  |-> (Idx(slow_data, 5) \div 2) % 128]

parse_service_data(slow_data) ==
    [serial_number |-> parse_uint16_be(slow_data),
     status |-> [zero_disabled                |-> BitSet(Idx(slow_data, 2), 1),
                 zero_in_progress             |-> BitSet(Idx(slow_data, 2), 2),
                 span_calibration_error       |-> BitSet(Idx(slow_data, 2), 4),
                 span_calibration_in_progress |-> BitSet(Idx(slow_data, 2), 8)]]

(* ------------------------------------------------------------------ *)
(* Public API, handle-based revision                                    *)
(* ------------------------------------------------------------------ *)
\* a NULL frame_data pointer
NULL == <<>>

gas_sensor_verify_checksum(frame_data) ==
    IF frame_data = NULL THEN FALSE
    ELSE LET expected   == Idx(frame_data, 20)
             calculated == calculate_checksum(frame_data)
         IN  expected = calculated

\* mutant: the masks of apnea and o2_low are exchanged
parse_status_masks_exchanged(status_byte) ==
    [breath_detected         |-> BitSet(status_byte, 1),
     apnea                   |-> BitSet(status_byte, 4),
     o2_low                  |-> BitSet(status_byte, 2),
     o2_replace              |-> BitSet(status_byte, 8),
     check_adapter           |-> BitSet(status_byte, 16),
     accuracy_out_of_range   |-> BitSet(status_byte, 32),
     sensor_error            |-> BitSet(status_byte, 64),
     o2_calibration_required |-> BitSet(status_byte, 128)]

\* mutant: the checksum is verified before the sync bytes
validate_frame_checksum_first(frame_data) ==
    IF frame_data = NULL THEN GAS_SENSOR_ERR_NULL_PARAM
    ELSE IF ~gas_sensor_verify_checksum(frame_data)
    THEN GAS_SENSOR_ERR_CHECKSUM
    ELSE IF Idx(frame_data, 0) # GAS_SENSOR_FLAG1 \/ Idx(frame_data, 1) # GAS_SENSOR_FLAG2
    THEN GAS_SENSOR_ERR_INVALID_FRAME
    ELSE GAS_SENSOR_OK

\* mutant: the checksum is not verified
validate_frame_no_checksum(frame_data) ==
    IF frame_data = NULL THEN GAS_SENSOR_ERR_NULL_PARAM
    ELSE IF Idx(frame_data, 0) # GAS_SENSOR_FLAG1 \/ Idx(frame_data, 1) # GAS_SENSOR_FLAG2
    THEN GAS_SENSOR_ERR_INVALID_FRAME
    ELSE GAS_SENSOR_OK

\* the checks at the head of gas_sensor_parse_frame, in the order of the code
validate_frame(frame_data) ==
    IF frame_data = NULL THEN GAS_SENSOR_ERR_NULL_PARAM
    ELSE IF Idx(frame_data, 0) # GAS_SENSOR_FLAG1 \/ Idx(frame_data, 1) # GAS_SENSOR_FLAG2
    THEN GAS_SENSOR_ERR_INVALID_FRAME
    ELSE IF ~gas_sensor_verify_checksum(frame_data)
    THEN GAS_SENSOR_ERR_CHECKSUM
    ELSE GAS_SENSOR_OK

\* mutant: the O2 word is read where the second agent's word lies
parse_waveform_o2_misplaced(frame_data) ==
    LET wave == From(frame_data, 4)
    IN  [co2 |-> parse_uint16_be(From(wave, 0)) * 10,
         n2o |-> parse_uint16_be(From(wave, 2)) * 10,
         aa1 |-> parse_uint16_be(From(wave, 4)) * 10,
         aa2 |-> parse_uint16_be(From(wave, 6)) * 10,
         o2  |-> parse_uint16_be(From(wave, 6)) * 10]

\* waveform->x = parse_uint16_be(&wave[k]) / 100.0f, wave = &frame_data[4]
parse_waveform(frame_data) ==
    LET wave == From(frame_data, 4)
    IN  [co2 |-> parse_uint16_be(From(wave, 0)) * 10,
         n2o |-> parse_uint16_be(From(wave, 2)) * 10,
         aa1 |-> parse_uint16_be(From(wave, 4)) * 10,
         aa2 |-> parse_uint16_be(From(wave, 6)) * 10,
         o2  |-> parse_uint16_be(From(wave, 8)) * 10]

parse_status(status_byte) ==
    [breath_detected         |-> BitSet(status_byte, 1),
     apnea                   |-> BitSet(status_byte, 2),
     o2_low                  |-> BitSet(status_byte, 4),
     o2_replace              |-> BitSet(status_byte, 8),
     check_adapter           |-> BitSet(status_byte, 16),
     accuracy_out_of_range   |-> BitSet(status_byte, 32),
     sensor_error            |-> BitSet(status_byte, 64),
     o2_calibration_required |-> BitSet(status_byte, 128)]

\* the switch over frame_id: each case stores one member of *slow_data
slot_switch(sd, frame_id, slow) ==
    CASE frame_id = 0 ->
           [result |-> GAS_SENSOR_OK,
            slow_data |-> [sd EXCEPT !.insp_vals = parse_insp_vals(slow)]]
      [] frame_id = 1 ->
           [result |-> GAS_SENSOR_OK,
            slow_data |-> [sd EXCEPT !.exp_vals = parse_exp_vals(slow)]]
      [] frame_id = 2 ->
           [result |-> GAS_SENSOR_OK,
            slow_data |-> [sd EXCEPT !.mom_vals = parse_mom_vals(slow)]]
      [] frame_id = 3 ->
           [result |-> GAS_SENSOR_OK,
            slow_data |-> [sd EXCEPT !.gen_vals = parse_gen_vals(slow)]]
      [] frame_id = 4 ->
           [result |-> GAS_SENSOR_OK,
            slow_data |-> [sd EXCEPT !.sensor_regs = parse_sensor_regs(slow)]]
      [] frame_id = 5 ->
           [result |-> GAS_SENSOR_OK,
            slow_data |-> [sd EXCEPT !.config_data = parse_config_data(slow)]]
      [] frame_id = 6 ->
           [result |-> GAS_SENSOR_OK,
            slow_data |-> [sd EXCEPT !.service_data = parse_service_data(slow)]]
      [] frame_id \in {7, 8, 9} ->
           [result |-> GAS_SENSOR_OK, slow_data |-> sd]
      [] OTHER ->
           [result |-> GAS_SENSOR_ERR_INVALID_FRAME, slow_data |-> sd]

\* mutant: no break after case 0x00, so an id-0 frame also stores exp_vals
dispatch_slow_data_fallthrough(slow_data, frame_id, slow) ==
    LET d == slot_switch([slow_data EXCEPT !.last_frame_id = frame_id], frame_id, slow)
    IN  IF frame_id = 0
        THEN [d EXCEPT !.slow_data.exp_vals = parse_exp_vals(slow)]
        ELSE d

\* mutant: a case that stores its slot only while that slot is still unset
dispatch_slow_data_first_only(slow_data, frame_id, slow) ==
    LET sd == [slow_data EXCEPT !.last_frame_id = frame_id]
    IN  IF frame_id = 3 /\ slow_data.gen_vals.atm_pressure # GAS_SENSOR_CONC_INVALID
        THEN [result |-> GAS_SENSOR_OK, slow_data |-> sd]
        ELSE slot_switch(sd, frame_id, slow)

\* mutant: the reserved ids 7..9 fall into the default case
dispatch_slow_data_reserved_rejected(slow_data, frame_id, slow) ==
    LET sd == [slow_data EXCEPT !.last_frame_id = frame_id]
    IN  IF frame_id \in {7, 8, 9}
        THEN [result |-> GAS_SENSOR_ERR_INVALID_FRAME, slow_data |-> sd]
        ELSE slot_switch(sd, frame_id, slow)

\* mutant: last_frame_id is stored inside the cases 0..6 only
dispatch_slow_data_id_in_cases(slow_data, frame_id, slow) ==
    IF frame_id \in 0 .. 6
    THEN slot_switch([slow_data EXCEPT !.last_frame_id = frame_id], frame_id, slow)
    ELSE slot_switch(slow_data, frame_id, slow)

\* the "if (slow_data)" block: last_frame_id is stored, then the switch
dispatch_slow_data(slow_data, frame_id, slow) ==
    slot_switch([slow_data EXCEPT !.last_frame_id = frame_id], frame_id, slow)

\* slow_data, waveform, status: the objects the output pointers address;
\* has_sd, has_wf, has_st: whether each pointer is non-NULL
gas_sensor_parse_frame(frame_data, slow_data, waveform, status, has_sd, has_wf, has_st) ==
    LET v == validate_frame(frame_data)
    IN  IF v # GAS_SENSOR_OK
        THEN [result |-> v, slow_data |-> slow_data,
              waveform |-> waveform, status |-> status]
        ELSE LET frame_id    == Idx(frame_data, 2)
                 status_byte == Idx(frame_data, 3)
                 wf == IF has_wf THEN parse_waveform(frame_data) ELSE waveform
                 st == IF has_st THEN parse_status(status_byte) ELSE status
                 d  == IF has_sd
                       THEN dispatch_slow_data(slow_data, frame_id, From(frame_data, 14))
                       ELSE [result |-> GAS_SENSOR_OK, slow_data |-> slow_data]
             IN  [result |-> d.result, slow_data |-> d.slow_data,
                  waveform |-> wf, status |-> st]

ConcInvalid5 ==
    [co2 |-> GAS_SENSOR_CONC_INVALID, n2o |-> GAS_SENSOR_CONC_INVALID,
     aa1 |-> GAS_SENSOR_CONC_INVALID, aa2 |-> GAS_SENSOR_CONC_INVALID,
     o2  |-> GAS_SENSOR_CONC_INVALID]

\* memset(slow_data, 0, sizeof(gas_sensor_slow_data_t))
ZeroSlowData ==
    [last_frame_id |-> 0,
     insp_vals |-> [co2 |-> 0, n2o |-> 0, aa1 |-> 0, aa2 |-> 0, o2 |-> 0],
     exp_vals  |-> [co2 |-> 0, n2o |-> 0, aa1 |-> 0, aa2 |-> 0, o2 |-> 0],
     mom_vals  |-> [co2 |-> 0, n2o |-> 0, aa1 |-> 0, aa2 |-> 0, o2 |-> 0],
     gen_vals  |-> [resp_rate |-> 0, time_since_breath |-> 0, primary_agent |-> 0,
                    secondary_agent |-> 0, atm_pressure |-> 0],
     sensor_regs |-> [mode |-> 0,
                      error |-> [sw_error |-> FALSE, hw_error |-> FALSE,
                                 motor_fail |-> FALSE, uncalibrated |-> FALSE],
                      adapter |-> [replace_adapter |-> FALSE, no_adapter |-> FALSE,
                                   o2_clogged |-> FALSE],
                      data_valid |-> [co2_out_of_range |-> FALSE,
                                      n2o_out_of_range |-> FALSE,
                                      agent_out_of_range |-> FALSE,
                                      o2_out_of_range |-> FALSE,
                                      temp_out_of_range |-> FALSE,
                                      pressure_out_of_range |-> FALSE,
                                      zero_calibration_required |-> FALSE]],
     config_data |-> [o2_fitted |-> FALSE, co2_fitted |-> FALSE, n2o_fitted |-> FALSE,
                      halothane_fitted |-> FALSE, enflurane_fitted |-> FALSE,
                      isoflurane_fitted |-> FALSE, sevoflurane_fitted |-> FALSE,
                      desflurane_fitted |-> FALSE, hw_revision |-> 0,
                      sw_revision |-> 0, id_config |-> FALSE,
                      comm_protocol_rev |-> 0],
     service_data |-> [serial_number |-> 0,
                       status |-> [zero_disabled |-> FALSE, zero_in_progress |-> FALSE,
                                   span_calibration_error |-> FALSE,
                                   span_calibration_in_progress |-> FALSE]]]

\* the structure after gas_sensor_init_slow_data, whatever it held before
gas_sensor_init_slow_data ==
    [ZeroSlowData EXCEPT
        !.last_frame_id = 255,
        !.insp_vals = ConcInvalid5,
        !.exp_vals = ConcInvalid5,
        !.mom_vals = ConcInvalid5,
        !.gen_vals.resp_rate = GAS_SENSOR_NO_DATA,
        !.gen_vals.time_since_breath = GAS_SENSOR_NO_DATA,
        !.gen_vals.atm_pressure = GAS_SENSOR_CONC_INVALID]

\* float gas_sensor_parse_concentration(uint8_t raw_value)
gas_sensor_parse_concentration(raw_value) == parse_concentration(raw_value)

(* ------------------------------------------------------------------ *)
(* Parse-only revision (po_): the same functions as defined again       *)
(* ------------------------------------------------------------------ *)
po_calculate_checksum(frame_data) ==
    LET sum == SumBytes16(frame_data, 2, 20)
    IN  (((0 - sum) - 1) + 1) % 256

\* (float)raw_value / 10.0f
po_parse_concentration(raw_value) ==
    IF raw_value = GAS_SENSOR_NO_DATA THEN GAS_SENSOR_CONC_INVALID
    ELSE raw_value * 100

\* (float)raw_value / 100.0f
po_parse_concentration_2byte(raw_value) ==
    IF raw_value = 65535 THEN GAS_SENSOR_CONC_INVALID
    ELSE raw_value * 10

po_parse_uint16_be(data) == ((Idx(data, 0) * 256) % 65536) + Idx(data, 1)

po_parse_insp_vals(slow_data_bytes) ==
    [co2 |-> po_parse_concentration(Idx(slow_data_bytes, 0)),
     n2o |-> po_parse_concentration(Idx(slow_data_bytes, 1)),
     aa1 |-> po_parse_concentration(Idx(slow_data_bytes, 2)),
     aa2 |-> po_parse_concentration(Idx(slow_data_bytes, 3)),
     o2  |-> po_parse_concentration(Idx(slow_data_bytes, 4))]

po_parse_exp_vals(slow_data_bytes) ==
    [co2 |-> po_parse_concentration(Idx(slow_data_bytes, 0)),
     n2o |-> po_parse_concentration(Idx(slow_data_bytes, 1)),
     aa1 |-> po_parse_concentration(Idx(slow_data_bytes, 2)),
     aa2 |-> po_parse_concentration(Idx(slow_data_bytes, 3)),
     o2  |-> po_parse_concentration(Idx(slow_data_bytes, 4))]

po_parse_mom_vals(slow_data_bytes) ==
    [co2 |-> po_parse_concentration(Idx(slow_data_bytes, 0)),
     n2o |-> po_parse_concentration(Idx(slow_data_bytes, 1)),
     aa1 |-> po_parse_concentration(Idx(slow_data_bytes, 2)),
     aa2 |-> po_parse_concentration(Idx(slow_data_bytes, 3)),
     o2  |-> po_parse_concentration(Idx(slow_data_bytes, 4))]

po_parse_gen_vals(slow_data_bytes) ==
    LET pressure_raw == po_parse_uint16_be(From(slow_data_bytes, 4))
    IN  [resp_rate |-> Idx(slow_data_bytes, 0),
         time_since_breath |-> Idx(slow_data_bytes, 1),
         primary_agent |-> Idx(slow_data_bytes, 2),
         secondary_agent |-> Idx(slow_data_bytes, 3),
         atm_pressure |-> IF pressure_raw = 65535 THEN GAS_SENSOR_CONC_INVALID
                          ELSE pressure_raw * 10]

po_parse_sensor_regs(slow_data_bytes) ==
    LET error_byte   == Idx(slow_data_bytes, 1)
        adapter_byte == Idx(slow_data_bytes, 2)
        valid_byte   == Idx(slow_data_bytes, 3)
    IN  [mode |-> Idx(slow_data_bytes, 0),
         error |-> [sw_error     |-> BitSet(error_byte, 1),
                    hw_error     |-> BitSet(error_byte, 2),
                    motor_fail   |-> BitSet(error_byte, 4),
                    uncalibrated |-> BitSet(error_byte, 8)],
         adapter |-> [replace_adapter |-> BitSet(adapter_byte, 1),
                      no_adapter      |-> BitSet(adapter_byte, 2),
                      o2_clogged      |-> BitSet(adapter_byte, 4)],
         data_valid |-> [co2_out_of_range          |-> BitSet(valid_byte, 1),
                         n2o_out_of_range          |-> BitSet(valid_byte, 2),
                         agent_out_of_range        |-> BitSet(valid_byte, 4),
                         o2_out_of_range           |-> BitSet(valid_byte, 8),
                         temp_out_of_range         |-> BitSet(valid_byte, 16),
                         pressure_out_of_range     |-> BitSet(valid_byte, 32),
                         zero_calibration_required |-> BitSet(valid_byte, 64)]]

po_parse_config_data(slow_data_bytes) ==
    LET fitted_byte == Idx(slow_data_bytes, 0)
    IN  [o2_fitted          |-> BitSet(fitted_byte, 1),
         co2_fitted         |-> BitSet(fitted_byte, 2),
         n2o_fitted         |-> BitSet(fitted_byte, 4),
         halothane_fitted   |-> BitSet(fitted_byte, 8),
         enflurane_fitted   |-> BitSet(fitted_byte, 16),
         isoflurane_fitted  |-> BitSet(fitted_byte, 32),
         sevoflurane_fitted |-> BitSet(fitted_byte, 64),
         desflurane_fitted  |-> BitSet(fitted_byte, 128),
         hw_revision        |-> po_parse_uint16_be(From(slow_data_bytes, 2)),
         sw_revision        |-> po_parse_uint16_be(From(slow_data_bytes, 4)),
         id_config          |-> FALSE,
         comm_protocol_rev  |-> 0]

po_parse_service_data(slow_data_bytes) ==
    LET status_byte == Idx(slow_data_bytes, 2)
    IN  [serial_number |-> po_parse_uint16_be(From(slow_data_bytes, 0)),
         status |-> [zero_disabled                |-> BitSet(status_byte, 1),
                     zero_in_progress             |-> BitSet(status_byte, 2),
                     span_calibration_error       |-> BitSet(status_byte, 4),
                     span_calibration_in_progress |-> BitSet(status_byte, 8)]]

po_gas_sensor_verify_checksum(frame_data) ==
    IF frame_data = NULL THEN FALSE
    ELSE IF Idx(frame_data, 0) # GAS_SENSOR_FLAG1 \/ Idx(frame_data, 1) # GAS_SENSOR_FLAG2
    THEN FALSE
    ELSE LET calculated     == po_calculate_checksum(frame_data)
             frame_checksum == Idx(frame_data, 20)
         IN  calculated = frame_checksum

po_validate_frame(frame_data) ==
    IF frame_data = NULL THEN GAS_SENSOR_ERR_NULL_PARAM
    ELSE IF Idx(frame_data, 0) # GAS_SENSOR_FLAG1 \/ Idx(frame_data, 1) # GAS_SENSOR_FLAG2
    THEN GAS_SENSOR_ERR_INVALID_FRAME
    ELSE IF ~po_gas_sensor_verify_checksum(frame_data)
    THEN GAS_SENSOR_ERR_CHECKSUM
    ELSE GAS_SENSOR_OK

po_parse_waveform(frame_data) ==
    [co2 |-> po_parse_concentration_2byte(po_parse_uint16_be(From(frame_data, 4))),
     n2o |-> po_parse_concentration_2byte(po_parse_uint16_be(From(frame_data, 6))),
     aa1 |-> po_parse_concentration_2byte(po_parse_uint16_be(From(frame_data, 8))),
     aa2 |-> po_parse_concentration_2byte(po_parse_uint16_be(From(frame_data, 10))),
     o2  |-> po_parse_concentration_2byte(po_parse_uint16_be(From(frame_data, 12)))]

po_parse_status(status_byte) ==
    [breath_detected         |-> BitSet(status_byte, 1),
     apnea                   |-> BitSet(status_byte, 2),
     o2_low                  |-> BitSet(status_byte, 4),
     o2_replace              |-> BitSet(status_byte, 8),
     check_adapter           |-> BitSet(status_byte, 16),
     accuracy_out_of_range   |-> BitSet(status_byte, 32),
     sensor_error            |-> BitSet(status_byte, 64),
     o2_calibration_required |-> BitSet(status_byte, 128)]

\* the "if (slow_data != NULL)" block: the id is validated before anything
\* is stored
po_dispatch_slow_data(slow_data, frame_id, slow_data_bytes) ==
    IF frame_id >= GAS_SENSOR_FRAME_ID_MAX
    THEN [result |-> GAS_SENSOR_ERR_INVALID_FRAME, slow_data |-> slow_data]
    ELSE
    LET sd == [slow_data EXCEPT !.last_frame_id = frame_id]
    IN  [result |-> GAS_SENSOR_OK,
         slow_data |->
           CASE frame_id = 0 -> [sd EXCEPT !.insp_vals = po_parse_insp_vals(slow_data_bytes)]
             [] frame_id = 1 -> [sd EXCEPT !.exp_vals = po_parse_exp_vals(slow_data_bytes)]
             [] frame_id = 2 -> [sd EXCEPT !.mom_vals = po_parse_mom_vals(slow_data_bytes)]
             [] frame_id = 3 -> [sd EXCEPT !.gen_vals = po_parse_gen_vals(slow_data_bytes)]
             [] frame_id = 4 ->
                  [sd EXCEPT !.sensor_regs = po_parse_sensor_regs(slow_data_bytes)]
             [] frame_id = 5 ->
                  [sd EXCEPT !.config_data = po_parse_config_data(slow_data_bytes)]
             [] frame_id = 6 ->
                  [sd EXCEPT !.service_data = po_parse_service_data(slow_data_bytes)]
             [] OTHER -> sd]

po_gas_sensor_parse_frame(frame_data, slow_data, waveform, status, has_sd, has_wf, has_st) ==
    LET v == po_validate_frame(frame_data)
    IN  IF v # GAS_SENSOR_OK
        THEN [result |-> v, slow_data |-> slow_data,
              waveform |-> waveform, status |-> status]
        ELSE LET wf == IF has_wf THEN po_parse_waveform(frame_data) ELSE waveform
                 st == IF has_st THEN po_parse_status(Idx(frame_data, 3)) ELSE status
                 d  == IF has_sd
                       THEN po_dispatch_slow_data(slow_data, Idx(frame_data, 2),
                                                  From(frame_data, 13))
                       ELSE [result |-> GAS_SENSOR_OK, slow_data |-> slow_data]
             IN  [result |-> d.result, slow_data |-> d.slow_data,
                  waveform |-> wf, status |-> st]

po_gas_sensor_init_slow_data ==
    [ZeroSlowData EXCEPT
        !.insp_vals = ConcInvalid5,
        !.exp_vals = ConcInvalid5,
        !.mom_vals = ConcInvalid5,
        !.gen_vals.atm_pressure = GAS_SENSOR_CONC_INVALID]

po_gas_sensor_parse_concentration(raw_value) == po_parse_concentration(raw_value)

(* ------------------------------------------------------------------ *)
(* The sensor: frames as the protocol document builds them              *)
(* ------------------------------------------------------------------ *)
RECURSIVE SumBytes8(_, _)
\* "for (ucI = 0; ucI < ucLen; ucI++) ucCheckSum += pFrm[ucI]" on a uint8_t
SumBytes8(pFrm, ucLen) ==
    IF ucLen = 0 THEN 0
    ELSE (SumBytes8(pFrm, ucLen - 1) + Idx(pFrm, ucLen - 1)) % 256

\* the protocol's VerifyChecksum: ucCheckSum = ~ucCheckSum; ucCheckSum += 1
VerifyChecksum(pFrm, ucLen) == (((255 - SumBytes8(pFrm, ucLen)) + 1) % 256)

\* FLAG1 FLAG2 ID STS waveform(10) slow(6) CHK
SensorFrame(id, sts, wave, slow) ==
    LET body == <<id, sts>> \o wave \o slow
    IN  <<GAS_SENSOR_FLAG1, GAS_SENSOR_FLAG2>> \o body \o <<VerifyChecksum(body, 18)>>

\* byte i (from 0) of a frame replaced: corruption on the line
Corrupt(frame, i, b) == [frame EXCEPT ![i + 1] = b]

(* ------------------------------------------------------------------ *)
(* Inputs of the checks                                                 *)
(* ------------------------------------------------------------------ *)
WaveZero == <<0, 0, 0, 0, 0, 0, 0, 0, 0, 0>>
\* CO2 500 (5.00 %), N2O 0xFFFF (no data), agent1 0xAA55, agent2 0, O2 0x0640
WaveMixed == <<1, 244, 255, 255, 170, 85, 0, 0, 6, 64>>
\* the slow-data bytes of the frame in example_parse_raw_frame
SlowExample == <<0, 255, 4, 0, 3, 245>>
SlowOther == <<50, 18, 255, 7, 129, 3>>

\* uint8_t frame[] of example_parse_raw_frame
ExampleFrame ==
    <<170, 85, 3, 0, 0, 0, 0, 0, 0, 0, 0, 0, 6, 64, 0, 255, 4, 0, 3, 245, 188>>

ValidIds == 0 .. 9
SlotIds == 0 .. 6

IsFrame(f) == f # NULL /\ Len(f) = GAS_SENSOR_FRAME_SIZE
FrameId(f) == Idx(f, 2)
SyncOk(f) == Idx(f, 0) = GAS_SENSOR_FLAG1 /\ Idx(f, 1) = GAS_SENSOR_FLAG2
\* the checksum byte is the one the sensor would have sent for bytes 2..19
ChecksumOk(f) == Idx(f, 20) = VerifyChecksum(SubSeq(f, 3, 20), 18)

\* frames handed to the offline parse API
ParseFrames ==
    { SensorFrame(id, 0, WaveZero, SlowExample) : id \in 0 .. 10 }
    \cup { SensorFrame(id, 165, WaveMixed, SlowOther) : id \in {0, 3, 8, 255} }
    \cup { Corrupt(SensorFrame(3, 0, WaveZero, SlowExample), 0, 0),
           Corrupt(SensorFrame(1, 165, WaveMixed, SlowOther), 1, 170),
           Corrupt(SensorFrame(3, 0, WaveZero, SlowExample), 20, 0),
           Corrupt(Corrupt(SensorFrame(0, 165, WaveMixed, SlowOther), 0, 85), 20, 1),
           Corrupt(Corrupt(SensorFrame(12, 0, WaveZero, SlowExample), 1, 0), 20, 7),
           Corrupt(SensorFrame(11, 0, WaveMixed, SlowExample), 19, 0),
           ExampleFrame,
           NULL }
    \cup { SensorFrame(7, sts, WaveZero, SlowExample) :
              sts \in {1, 2, 4, 8, 16, 32, 64, 128} }

\* byte streams put on the serial line: one garbage byte before a frame,
\* two frames back to back, garbage or a cut frame before a frame
GarbageBytes == {0, 85, 170}

LineFrames ==
    { SensorFrame(3, 0, WaveZero, SlowExample),
      SensorFrame(0, 165, WaveMixed, SlowOther),
      SensorFrame(8, 0, WaveZero, SlowOther) }

FirstFrames ==
    { SensorFrame(3, 0, WaveZero, SlowExample),
      SensorFrame(0, 165, WaveMixed, SlowOther),
      Corrupt(SensorFrame(3, 0, WaveZero, SlowExample), 20, 0),
      SensorFrame(10, 0, WaveZero, SlowExample) }

LineInputs ==
    { <<g>> \o f : g \in GarbageBytes, f \in LineFrames }
    \cup { f \o SensorFrame(5, 165, WaveZero, SlowOther) : f \in FirstFrames }
    \cup { <<0, 170, 170>> \o SensorFrame(3, 0, WaveZero, SlowExample),
           SubSeq(SensorFrame(3, 0, WaveZero, SlowExample), 1, 10)
              \o SensorFrame(0, 165, WaveMixed, SlowOther) }

ZeroWaveform == [co2 |-> 0, n2o |-> 0, aa1 |-> 0, aa2 |-> 0, o2 |-> 0]
ZeroStatus == parse_status(0)

\* calls made in one run of the offline parse API
MaxParseCalls == 2
\* frames handed to the decoder in one run of the streaming reader
MaxDecodes == 3

\* sizeof(temp_buffer) and sizeof(h->rx_buffer)
TEMP_BUFFER_SIZE == 128
RX_BUFFER_SIZE == 256

Min(a, b) == IF a < b THEN a ELSE b

(* ------------------------------------------------------------------ *)
(* State                                                                *)
(* ------------------------------------------------------------------ *)
VARIABLES
    \* the caller's objects and the pointers it passes
    slow_data,        \* the caller's gas_sensor_slow_data_t
    waveform,         \* the caller's gas_sensor_waveform_t
    status,           \* the caller's gas_sensor_status_t
    has,              \* which of the three output pointers the caller passes non-NULL
    result,           \* value returned by the last call
    \* the same run made against the parse-only revision
    po_slow_data,
    po_waveform,
    po_status,
    po_result,
    \* the sensor handle (struct gas_sensor_handle) and the serial line
    h_slow_data,      \* h->slow_data
    h_callback,       \* whether h->callback is registered
    rx_buffer,        \* h->rx_buffer[0 .. h->rx_buffer_len - 1]
    line,             \* bytes the sensor has sent that no read has returned yet
    \* history
    call,             \* the last call: its name and frame
    before,           \* the objects as they were before the last call
    last_ok,          \* per slot id: last frame merged with success since init
    po_last_ok,
    calls,            \* number of parse API calls made
    input,            \* everything the sensor sends in this run
    rd,               \* what the last gas_sensor_read_frame did
    decoded,          \* the frames handed to the decoder, in order
    dropped,          \* bytes discarded so far while looking for sync
    callbacks,        \* the invocations of h->callback so far: frame and return
    \* the Zephyr wrapper (zephyr_gas_sensor_t) and its two threads
    lock,             \* sensor->lock: owning thread and lock count
    pc                \* where each thread is in the wrapper

apiVars == <<slow_data, waveform, status, has, result, call, before>>
poVars == <<po_slow_data, po_waveform, po_status, po_result, last_ok, po_last_ok, calls>>
handleVars ==
    <<h_slow_data, h_callback, rx_buffer, line, input, rd, decoded, dropped, callbacks>>
zephyrVars == <<lock, pc>>
vars == <<apiVars, poVars, handleVars, zephyrVars>>

NoThread == "none"

\* k_mutex_init(&sensor->lock): unlocked
k_mutex_init == [owner |-> NoThread, lock_count |-> 0]

rx_buffer_len == Len(rx_buffer)

NoCall == [op |-> "none", frame |-> NULL]

\* the three pointers a callback is given, each as the set of objects it
\* addresses: the empty set is a NULL pointer
NoArgs == [slow_data |-> {}, waveform |-> {}, status |-> {}]

NoRead == [n |-> 0, overflow |-> FALSE, fill |-> 0, skipped |-> 0, handed |-> NULL,
           at_decode |-> <<>>, removed |-> 0, parse_result |-> GAS_SENSOR_OK,
           callback |-> "none", cb_args |-> NoArgs]

Outputs ==
    [slow_data |-> slow_data, waveform |-> waveform, status |-> status,
     po_slow_data |-> po_slow_data, po_waveform |-> po_waveform,
     po_status |-> po_status, h_slow_data |-> h_slow_data, rx_buffer |-> rx_buffer]

NoneOk == [id \in SlotIds |-> NULL]

\* the caller's objects as the examples set them up: gas_sensor_init_slow_data
\* on the aggregate, nothing yet in waveform and status
CallerInit ==
    /\ slow_data = gas_sensor_init_slow_data
    /\ waveform = ZeroWaveform
    /\ status = ZeroStatus
    /\ po_slow_data = po_gas_sensor_init_slow_data
    /\ po_waveform = ZeroWaveform
    /\ po_status = ZeroStatus
    /\ call = NoCall
    /\ last_ok = NoneOk
    /\ po_last_ok = NoneOk
    /\ calls = 0
    /\ rd = NoRead
    /\ decoded = <<>>
    /\ dropped = 0
    /\ callbacks = <<>>
    /\ lock = k_mutex_init
    /\ pc = [reader |-> "idle", consumer |-> "idle"]
    /\ before = Outputs

\* gas_sensor_init: callback stored, aggregate initialised, buffer empty
gas_sensor_init(callback, sent) ==
    /\ h_callback = callback
    /\ h_slow_data = gas_sensor_init_slow_data
    /\ rx_buffer = <<>>
    /\ line = sent
    /\ input = sent

(* ------------------------------------------------------------------ *)
(* Offline use of the parse API, both revisions side by side            *)
(* ------------------------------------------------------------------ *)
ParseInit ==
    /\ has \in [sd : BOOLEAN, wf : BOOLEAN, st : BOOLEAN]
    /\ gas_sensor_init(FALSE, <<>>)
    /\ result = GAS_SENSOR_OK
    /\ po_result = GAS_SENSOR_OK
    /\ CallerInit

\* which frame a slot's history records after a call
Recorded(hist, frame_data, has_sd, res) ==
    IF res = GAS_SENSOR_OK /\ has_sd /\ FrameId(frame_data) \in SlotIds
    THEN [hist EXCEPT ![FrameId(frame_data)] = frame_data]
    ELSE hist

\* one call of gas_sensor_parse_frame by each revision on the same arguments
ParseFrame(frame_data) ==
    \E r \in {gas_sensor_parse_frame(frame_data, slow_data, waveform, status,
                                     has.sd, has.wf, has.st)},
       q \in {po_gas_sensor_parse_frame(frame_data, po_slow_data, po_waveform,
                                        po_status, has.sd, has.wf, has.st)} :
        /\ calls < MaxParseCalls
        /\ slow_data' = r.slow_data
        /\ waveform' = r.waveform
        /\ status' = r.status
        /\ result' = r.result
        /\ po_slow_data' = q.slow_data
        /\ po_waveform' = q.waveform
        /\ po_status' = q.status
        /\ po_result' = q.result
        /\ call' = [op |-> "parse", frame |-> frame_data]
        /\ before' = Outputs
        /\ last_ok' = Recorded(last_ok, frame_data, has.sd, r.result)
        /\ po_last_ok' = Recorded(po_last_ok, frame_data, has.sd, q.result)
        /\ calls' = calls + 1
        /\ UNCHANGED <<has, handleVars, zephyrVars>>

\* one call of gas_sensor_init_slow_data(&slow_data) by each revision
InitSlowData ==
    /\ calls < MaxParseCalls
    /\ slow_data' = gas_sensor_init_slow_data
    /\ po_slow_data' = po_gas_sensor_init_slow_data
    /\ call' = [op |-> "init", frame |-> NULL]
    /\ before' = Outputs
    /\ last_ok' = NoneOk
    /\ po_last_ok' = NoneOk
    /\ calls' = calls + 1
    /\ UNCHANGED <<waveform, status, has, result, po_waveform, po_status, po_result,
                   handleVars, zephyrVars>>

ParseNext ==
    \/ \E f \in ParseFrames : ParseFrame(f)
    \/ InitSlowData

SpecParse == ParseInit /\ [][ParseNext]_vars

(* ------------------------------------------------------------------ *)
(* gas_sensor_verify_checksum on its own, both revisions                *)
(* ------------------------------------------------------------------ *)
\* the pure functions of the API, both revisions: gas_sensor_verify_checksum
\* on 21-byte arrays and gas_sensor_parse_concentration on every byte
\* 21-byte arrays: sensor frames with either sync byte and the checksum byte
\* possibly altered
CodecFrames ==
    { Corrupt(Corrupt(Corrupt(SensorFrame(id, sts, w, sl), 0, b0), 1, b1), 20,
              (Idx(SensorFrame(id, sts, w, sl), 20) + d) % 256) :
        id \in {0, 3, 9, 10, 255}, sts \in {0, 165}, w \in {WaveZero, WaveMixed},
        sl \in {SlowExample, SlowOther}, b0 \in {GAS_SENSOR_FLAG1, 0},
        b1 \in {GAS_SENSOR_FLAG2, GAS_SENSOR_FLAG1}, d \in {0, 1, 128} }
    \cup { Corrupt(SensorFrame(id, id, [i \in 1 .. 10 |-> id], [i \in 1 .. 6 |-> id]),
                    20, (Idx(SensorFrame(id, id, [i \in 1 .. 10 |-> id],
                                         [i \in 1 .. 6 |-> id]), 20) + d) % 256) :
              id \in {0, 255}, d \in {0, 255} }

CodecInit ==
    /\ has = [sd |-> FALSE, wf |-> FALSE, st |-> FALSE]
    /\ gas_sensor_init(FALSE, <<>>)
    /\ result = FALSE
    /\ po_result = FALSE
    /\ CallerInit

\* bool ok = gas_sensor_verify_checksum(frame), by each revision
VerifyChecksumCall(frame_data) ==
    /\ result' = gas_sensor_verify_checksum(frame_data)
    /\ po_result' = po_gas_sensor_verify_checksum(frame_data)
    /\ call' = [op |-> "verify", frame |-> frame_data]
    /\ before' = Outputs
    /\ UNCHANGED <<slow_data, waveform, status, has, po_slow_data, po_waveform,
                   po_status, last_ok, po_last_ok, calls, handleVars, zephyrVars>>

\* float c = gas_sensor_parse_concentration(raw), by each revision; the
\* result is in thousandths of a percent
ParseConcentrationCall(raw_value) ==
    /\ result' = gas_sensor_parse_concentration(raw_value)
    /\ po_result' = po_gas_sensor_parse_concentration(raw_value)
    /\ call' = [op |-> "concentration", frame |-> <<raw_value>>]
    /\ before' = Outputs
    /\ UNCHANGED <<slow_data, waveform, status, has, po_slow_data, po_waveform,
                   po_status, last_ok, po_last_ok, calls, handleVars, zephyrVars>>

CodecNext ==
    \/ \E f \in CodecFrames : VerifyChecksumCall(f)
    \/ \E raw_value \in 0 .. 255 : ParseConcentrationCall(raw_value)

SpecCodec == CodecInit /\ [][CodecNext]_vars

(* ------------------------------------------------------------------ *)
(* The streaming reader, handle-based revision                          *)
(* ------------------------------------------------------------------ *)
\* mutant: the append without the overflow test
append_bytes_no_reset(buffer, temp_buffer) == buffer \o temp_buffer

\* "Add new bytes to buffer": on overflow the fill length is reset first
append_bytes(buffer, temp_buffer) ==
    IF Len(temp_buffer) > 0
    THEN IF Len(buffer) + Len(temp_buffer) > RX_BUFFER_SIZE
         THEN temp_buffer
         ELSE buffer \o temp_buffer
    ELSE buffer

\* mutant: the scan stops at the first 0xAA, whatever follows it
find_frame_start_flag1_only(buffer) ==
    LET hits == { i \in 0 .. Len(buffer) - 2 : Idx(buffer, i) = GAS_SENSOR_FLAG1 }
    IN  IF hits = {} THEN -1
        ELSE CHOOSE i \in hits : \A j \in hits : i <= j

\* the scan for 0xAA 0x55: first i in 0 .. len - 2, or -1
find_frame_start(buffer) ==
    LET hits == { i \in 0 .. Len(buffer) - 2 :
                    /\ Idx(buffer, i) = GAS_SENSOR_FLAG1
                    /\ Idx(buffer, i + 1) = GAS_SENSOR_FLAG2 }
    IN  IF hits = {} THEN -1
        ELSE CHOOSE i \in hits : \A j \in hits : i <= j

\* mutant: with no sync in sight the whole buffer is thrown away
drop_unsynced_all(buffer) == <<>>

\* no sync pattern and at least 2 bytes: the first byte is discarded
drop_unsynced(buffer) == Tail(buffer)

\* mutant: the alignment also discards the 0xAA of the sync marker
discard_before_through_flag1(buffer, frame_start) ==
    IF frame_start > 0 THEN From(buffer, frame_start + 1) ELSE buffer

\* "Discard any data before frame start"
discard_before(buffer, frame_start) ==
    IF frame_start > 0 THEN From(buffer, frame_start) ELSE buffer

\* mutant: every complete frame in the buffer is removed at once
consume_frame_all_complete(buffer, parse_result) ==
    IF parse_result = GAS_SENSOR_OK \/ parse_result = GAS_SENSOR_ERR_CHECKSUM
    THEN From(buffer, GAS_SENSOR_FRAME_SIZE * (Len(buffer) \div GAS_SENSOR_FRAME_SIZE))
    ELSE buffer

\* "Remove processed frame from buffer"
consume_frame(buffer, parse_result) ==
    IF parse_result = GAS_SENSOR_OK \/ parse_result = GAS_SENSOR_ERR_CHECKSUM
    THEN From(buffer, GAS_SENSOR_FRAME_SIZE)
    ELSE buffer

\* mutant: a frame that fails its checksum is delivered like a good one
parse_succeeded_or_checksum(parse_result) ==
    parse_result = GAS_SENSOR_OK \/ parse_result = GAS_SENSOR_ERR_CHECKSUM

\* "Only proceed if frame parse was successful"
parse_succeeded(parse_result) == parse_result = GAS_SENSOR_OK

\* mutant: the aggregate is never copied to the caller
copy_slow_data_never(caller_slow_data, h_sd, has_sd) == caller_slow_data

\* "Update slow data pointer if provided": memcpy(slow_data, &h->slow_data)
copy_slow_data(caller_slow_data, h_sd, has_sd) ==
    IF has_sd THEN h_sd ELSE caller_slow_data

\* values a registered callback may return
CallbackReturns == {0, -1}

\* h->callback(&h->slow_data, waveform, status): the aggregate of the handle
\* and the caller's own waveform and status pointers
callback_args(r, has_wf, has_st) ==
    [slow_data |-> {r.slow_data},
     waveform  |-> IF has_wf THEN {r.waveform} ELSE {},
     status    |-> IF has_st THEN {r.status} ELSE {}]

\* gas_sensor_read_frame from the point where read() has returned temp_buffer;
\* cb_ret is what the callback returns if it is invoked
gas_sensor_read_frame(temp_buffer, cb_ret) ==
    LET buf1 == append_bytes(rx_buffer, temp_buffer)
        frame_start == find_frame_start(buf1)
        rd0 == [NoRead EXCEPT
                  !.n = Len(temp_buffer),
                  !.fill = Len(buf1),
                  !.overflow = /\ Len(temp_buffer) > 0
                               /\ rx_buffer_len + Len(temp_buffer) > RX_BUFFER_SIZE]
        same == [rx_buffer |-> buf1, h_slow_data |-> h_slow_data,
                 slow_data |-> slow_data, waveform |-> waveform, status |-> status,
                 result |-> GAS_SENSOR_ERR_SERIAL_READ, rd |-> rd0]
    IN  IF frame_start = -1
        THEN IF Len(buf1) < 2
             THEN same
             ELSE [same EXCEPT !.rx_buffer = drop_unsynced(buf1),
                               !.result = GAS_SENSOR_ERR_INVALID_FRAME,
                               !.rd.skipped = 1]
        ELSE
        LET buf2 == discard_before(buf1, frame_start)
        IN  IF Len(buf2) < GAS_SENSOR_FRAME_SIZE
            THEN [same EXCEPT !.rx_buffer = buf2, !.rd.skipped = frame_start]
            ELSE
            LET r == gas_sensor_parse_frame(SubSeq(buf2, 1, GAS_SENSOR_FRAME_SIZE),
                                            h_slow_data, waveform, status,
                                            TRUE, has.wf, has.st)
                buf3 == consume_frame(buf2, r.result)
                rd1 == [rd0 EXCEPT
                          !.skipped = frame_start,
                          !.handed = SubSeq(buf2, 1, GAS_SENSOR_FRAME_SIZE),
                          !.at_decode = buf2,
                          !.removed = Len(buf2) - Len(buf3),
                          !.parse_result = r.result]
            IN  IF ~parse_succeeded(r.result)
                THEN [rx_buffer |-> buf3, h_slow_data |-> r.slow_data,
                      slow_data |-> slow_data, waveform |-> r.waveform,
                      status |-> r.status, result |-> r.result, rd |-> rd1]
                ELSE [rx_buffer |-> buf3, h_slow_data |-> r.slow_data,
                      slow_data |-> copy_slow_data(slow_data, r.slow_data, has.sd),
                      waveform |-> r.waveform, status |-> r.status,
                      result |-> IF h_callback /\ cb_ret # 0
                                 THEN GAS_SENSOR_ERR_CALLBACK ELSE r.result,
                      rd |-> [rd1 EXCEPT
                                !.callback =
                                   IF ~h_callback THEN "none"
                                   ELSE IF cb_ret = 0 THEN "ok" ELSE "fail",
                                !.cb_args =
                                   IF ~h_callback THEN NoArgs
                                   ELSE callback_args(r, has.wf, has.st)]]

\* how gas_sensor_read_frame is called: polling with all three outputs and
\* callback mode with none, as the examples do, and a callback together with
\* the slow-data and waveform outputs
ReadModes ==
    { [sd |-> TRUE, wf |-> TRUE, st |-> TRUE, callback |-> FALSE],
      [sd |-> FALSE, wf |-> FALSE, st |-> FALSE, callback |-> TRUE],
      [sd |-> TRUE, wf |-> TRUE, st |-> FALSE, callback |-> TRUE] }

Init ==
    /\ \E m \in ReadModes :
          /\ has = [sd |-> m.sd, wf |-> m.wf, st |-> m.st]
          /\ \E sent \in LineInputs : gas_sensor_init(m.callback, sent)
    /\ result = GAS_SENSOR_OK
    /\ po_result = GAS_SENSOR_OK
    /\ CallerInit

\* the effect of one call of gas_sensor_read_frame in which read() returns the
\* next n bytes of the line
ReadStep(n, cb_ret) ==
    \E o \in {gas_sensor_read_frame(SubSeq(line, 1, n), cb_ret)} :
        /\ cb_ret # 0 => o.rd.callback = "fail"
        /\ rx_buffer' = o.rx_buffer
        /\ h_slow_data' = o.h_slow_data
        /\ slow_data' = o.slow_data
        /\ waveform' = o.waveform
        /\ status' = o.status
        /\ result' = o.result
        /\ rd' = o.rd
        /\ line' = From(line, n)
        /\ call' = [op |-> "read", frame |-> o.rd.handed]
        /\ before' = Outputs
        /\ decoded' = IF o.rd.handed # NULL THEN Append(decoded, o.rd.handed)
                      ELSE decoded
        /\ dropped' = dropped + o.rd.skipped
        /\ callbacks' = IF o.rd.callback # "none"
                        THEN Append(callbacks, [frame |-> o.rd.handed,
                                                ret |-> o.rd.callback])
                        ELSE callbacks
        /\ UNCHANGED <<has, h_callback, input, po_slow_data, po_waveform, po_status,
                       po_result, last_ok, po_last_ok>>

\* one call of gas_sensor_read_frame in which read() returns n bytes
ReadFrame(n, cb_ret) ==
    /\ Len(decoded) < MaxDecodes
    /\ ReadStep(n, cb_ret)
    /\ UNCHANGED <<calls, zephyrVars>>

\* one call in which select() times out or read() fails: the buffer is not
\* touched
ReadError ==
    /\ Len(decoded) < MaxDecodes
    /\ result' = GAS_SENSOR_ERR_SERIAL_READ
    /\ rd' = NoRead
    /\ call' = [op |-> "read", frame |-> NULL]
    /\ before' = Outputs
    /\ UNCHANGED <<slow_data, waveform, status, has, poVars, h_slow_data, h_callback,
                   rx_buffer, line, input, decoded, dropped, callbacks, zephyrVars>>

Next ==
    \/ \E n \in 0 .. Min(TEMP_BUFFER_SIZE, Len(line)), cb_ret \in CallbackReturns :
          ReadFrame(n, cb_ret)
    \/ ReadError

Spec == Init /\ [][Next]_vars

(* ------------------------------------------------------------------ *)
(* The streaming reader under a flood of bytes without sync             *)
(* ------------------------------------------------------------------ *)
\* read calls made in one run of the flood
MaxFloodReads == 6

\* byte counts read() returns in the flood: nothing, single bytes, a frame
\* less its first byte, a whole frame, the whole temp_buffer
ReadSizes == {0, 1, 2, GAS_SENSOR_FRAME_SIZE - 1, GAS_SENSOR_FRAME_SIZE, TEMP_BUFFER_SIZE}

\* more than sizeof(h->rx_buffer) bytes in which 0xAA is never followed by 0x55
GarbageFlood == [i \in 1 .. RX_BUFFER_SIZE + 2 |-> <<0, 85, 170>>[(i % 3) + 1]]

FloodInit ==
    /\ has = [sd |-> TRUE, wf |-> TRUE, st |-> TRUE]
    /\ \E f \in LineFrames : gas_sensor_init(FALSE, GarbageFlood \o f)
    /\ result = GAS_SENSOR_OK
    /\ po_result = GAS_SENSOR_OK
    /\ CallerInit

\* one call of gas_sensor_read_frame in the flood
FloodRead(n) ==
    /\ calls < MaxFloodReads
    /\ n <= Len(line)
    /\ ReadStep(n, 0)
    /\ calls' = calls + 1
    /\ UNCHANGED zephyrVars

FloodNext == \E n \in ReadSizes : FloodRead(n)

SpecFlood == FloodInit /\ [][FloodNext]_vars

(* ------------------------------------------------------------------ *)
(* The streaming reader on a stream of back-to-back valid frames        *)
(* ------------------------------------------------------------------ *)
\* frames the sensor sends in one burst
MaxBurstFrames == 19

\* the k-th frame of the burst: the ids 0..9 in turn
BurstFrame(k) ==
    SensorFrame((k - 1) % GAS_SENSOR_FRAME_ID_MAX, 0, WaveZero,
                IF k % 2 = 0 THEN SlowOther ELSE SlowExample)

RECURSIVE Burst(_)
\* the first k frames of the burst, back to back
Burst(k) == IF k = 0 THEN <<>> ELSE Burst(k - 1) \o BurstFrame(k)

BurstInit ==
    /\ \E m \in ReadModes :
          /\ has = [sd |-> m.sd, wf |-> m.wf, st |-> m.st]
          /\ gas_sensor_init(m.callback, Burst(MaxBurstFrames))
    /\ result = GAS_SENSOR_OK
    /\ po_result = GAS_SENSOR_OK
    /\ CallerInit

SpecBurst == BurstInit /\ [][FloodNext]_vars

(* ------------------------------------------------------------------ *)
(* The streaming reader after a damaged start of the stream             *)
(* ------------------------------------------------------------------ *)
\* valid frames the sensor sends after the damaged bytes
MaxRelockFrames == 4

\* the k-th frame of a stream whose waveform bytes hold 0xAA 0x55
PayloadSyncFrame(k) ==
    SensorFrame((k - 1) % GAS_SENSOR_FRAME_ID_MAX, 165, WaveMixed, SlowOther)

RECURSIVE PayloadSyncStream(_)
PayloadSyncStream(k) ==
    IF k = 0 THEN <<>> ELSE PayloadSyncStream(k - 1) \o PayloadSyncFrame(k)

\* what reaches the host before the first whole frame: a frame that lost its
\* first byte, the tail of a frame, a frame with a damaged byte, noise
DamagedPrefixes ==
    { Tail(PayloadSyncFrame(10)),
      From(BurstFrame(10), 12),
      Corrupt(PayloadSyncFrame(10), 5, 0),
      <<0, 170, 0>> }

RelockInit ==
    /\ has = [sd |-> TRUE, wf |-> TRUE, st |-> TRUE]
    /\ \E prefix \in DamagedPrefixes :
          \E stream \in {Burst(MaxRelockFrames), PayloadSyncStream(MaxRelockFrames)} :
             gas_sensor_init(FALSE, prefix \o stream)
    /\ result = GAS_SENSOR_OK
    /\ po_result = GAS_SENSOR_OK
    /\ CallerInit

\* byte counts read() returns while the frames arrive one at a time
RelockSizes == {0, 1, GAS_SENSOR_FRAME_SIZE - 1, GAS_SENSOR_FRAME_SIZE}

\* one call of gas_sensor_read_frame in which read() returns at most a frame
RelockRead(n) ==
    /\ n <= Len(line)
    /\ ReadStep(n, 0)
    /\ UNCHANGED <<calls, zephyrVars>>

RelockNext == \E n \in RelockSizes : RelockRead(n)

SpecRelock == RelockInit /\ [][RelockNext]_vars

(* ------------------------------------------------------------------ *)
(* The Zephyr wrapper: a reading thread and a thread that takes the     *)
(* data                                                                 *)
(* ------------------------------------------------------------------ *)
\* frames the sensor sends while the two threads run
MaxZephyrFrames == 3

\* mutant: k_mutex_lock never waits
k_mutex_can_lock_always(m, t) == TRUE

\* k_mutex_lock(&sensor->lock, K_FOREVER) returns to thread t only when the
\* mutex is free or already owned by t
k_mutex_can_lock(m, t) == m.owner \in {NoThread, t}

\* the mutex after k_mutex_lock has returned to thread t
k_mutex_lock(m, t) == [owner |-> t, lock_count |-> m.lock_count + 1]

\* k_mutex_unlock(&sensor->lock) by thread t: nothing for a thread that does
\* not own the mutex, free after the last unlock of the owner
k_mutex_unlock(m, t) ==
    IF m.owner # t THEN m
    ELSE IF m.lock_count > 1 THEN [m EXCEPT !.lock_count = m.lock_count - 1]
    ELSE k_mutex_init

\* zephyr_gas_sensor_init, then the sensor sends frames
ZephyrInit ==
    /\ has = [sd |-> TRUE, wf |-> TRUE, st |-> TRUE]
    /\ \E cb \in BOOLEAN,
          sent \in {Burst(MaxZephyrFrames), PayloadSyncStream(MaxZephyrFrames)} :
          gas_sensor_init(cb, sent)
    /\ result = GAS_SENSOR_OK
    /\ po_result = GAS_SENSOR_OK
    /\ CallerInit

ZephyrIdle == UNCHANGED <<apiVars, poVars, handleVars>>

\* zephyr_gas_sensor_read is called and reaches k_mutex_lock
zephyr_gas_sensor_read_call ==
    /\ pc.reader = "idle"
    /\ pc' = [pc EXCEPT !.reader = "lock"]
    /\ UNCHANGED lock
    /\ ZephyrIdle

\* k_mutex_lock returns to the reading thread
zephyr_gas_sensor_read_lock ==
    /\ pc.reader = "lock"
    /\ k_mutex_can_lock(lock, "reader")
    /\ lock' = k_mutex_lock(lock, "reader")
    /\ pc' = [pc EXCEPT !.reader = "locked"]
    /\ ZephyrIdle

\* gas_sensor_read_frame(sensor->sensor, &sensor->slow_data, &sensor->waveform,
\* &sensor->status)
zephyr_gas_sensor_read_frame(n, cb_ret) ==
    /\ pc.reader = "locked"
    /\ ReadStep(n, cb_ret)
    /\ pc' = [pc EXCEPT !.reader = "read"]
    /\ UNCHANGED <<calls, lock>>

\* k_mutex_unlock and return of zephyr_gas_sensor_read
zephyr_gas_sensor_read_unlock ==
    /\ pc.reader = "read"
    /\ lock' = k_mutex_unlock(lock, "reader")
    /\ pc' = [pc EXCEPT !.reader = "idle"]
    /\ ZephyrIdle

\* zephyr_gas_sensor_get_data with a NULL argument: -EINVAL, nothing locked
zephyr_gas_sensor_get_data_invalid ==
    /\ pc.consumer = "idle"
    /\ pc' = [pc EXCEPT !.consumer = "einval"]
    /\ UNCHANGED lock
    /\ ZephyrIdle

\* zephyr_gas_sensor_get_data is called and reaches k_mutex_lock
zephyr_gas_sensor_get_data_call ==
    /\ pc.consumer = "idle"
    /\ pc' = [pc EXCEPT !.consumer = "lock"]
    /\ UNCHANGED lock
    /\ ZephyrIdle

\* k_mutex_lock returns; the three pointers are set and GAS_SENSOR_OK is
\* returned with the mutex held
zephyr_gas_sensor_get_data ==
    /\ pc.consumer = "lock"
    /\ k_mutex_can_lock(lock, "consumer")
    /\ lock' = k_mutex_lock(lock, "consumer")
    /\ pc' = [pc EXCEPT !.consumer = "holding"]
    /\ ZephyrIdle

\* zephyr_gas_sensor_release
zephyr_gas_sensor_release ==
    /\ pc.consumer \in {"holding", "einval"}
    /\ lock' = k_mutex_unlock(lock, "consumer")
    /\ pc' = [pc EXCEPT !.consumer = "idle"]
    /\ ZephyrIdle

ZephyrNext ==
    \/ zephyr_gas_sensor_read_call
    \/ zephyr_gas_sensor_read_lock
    \/ \E n \in {0, GAS_SENSOR_FRAME_SIZE}, cb_ret \in CallbackReturns :
          n <= Len(line) /\ zephyr_gas_sensor_read_frame(n, cb_ret)
    \/ zephyr_gas_sensor_read_unlock
    \/ zephyr_gas_sensor_get_data_invalid
    \/ zephyr_gas_sensor_get_data_call
    \/ zephyr_gas_sensor_get_data
    \/ zephyr_gas_sensor_release

SpecZephyr == ZephyrInit /\ [][ZephyrNext]_vars

(* ------------------------------------------------------------------ *)
(* The slow-data fields of ids 3, 4 and 5, both revisions side by side  *)
(* ------------------------------------------------------------------ *)
\* atmospheric pressure words of the documented range 500..1300, its ends,
\* the standard atmosphere and the words whose low byte is 0xFF
PressureWords == {500, 511, 512, 767, 1013, 1023, 1279, 1300}

GenValsFrame(v) ==
    SensorFrame(3, 0, WaveZero, <<12, 3, 1, 0, v \div 256, v % 256>>)

\* register bytes of id 4: mode, reserved, error, adapter, data valid
SensorRegsPayloads ==
    { <<0, 0, 0, 0, 0, 0>>, <<0, 255, 0, 0, 0, 0>>, <<7, 0, 0, 0, 0, 0>>,
      <<250, 0, 0, 0, 0, 0>>, <<0, 0, 5, 0, 0, 0>>, <<0, 0, 250, 0, 0, 0>>,
      <<0, 0, 0, 5, 0, 0>>, <<0, 0, 0, 250, 0, 0>>, <<0, 0, 0, 0, 85, 0>>,
      <<0, 0, 0, 0, 170, 0>>, <<2, 170, 10, 2, 42, 0>> }

\* configuration bytes of id 5: config register 0, hw rev., sw rev. HI and
\* LO, config register 1, comm protocol rev.
ConfigDataPayloads ==
    { <<0, 0, 0, 0, 0, 0>>, <<165, 0, 0, 0, 0, 0>>, <<90, 0, 0, 0, 0, 0>>,
      <<0, 18, 0, 0, 0, 0>>, <<0, 0, 1, 35, 0, 0>>, <<0, 0, 0, 0, 1, 0>>,
      <<0, 0, 0, 0, 254, 0>>, <<0, 0, 0, 0, 0, 1>>, <<0, 0, 0, 0, 0, 32>>,
      <<255, 18, 18, 52, 1, 33>> }

FieldFrames ==
    { GenValsFrame(v) : v \in PressureWords }
    \cup { SensorFrame(4, 0, WaveZero, p) : p \in SensorRegsPayloads }
    \cup { SensorFrame(5, 0, WaveZero, p) : p \in ConfigDataPayloads }

FieldsInit ==
    /\ has = [sd |-> TRUE, wf |-> TRUE, st |-> TRUE]
    /\ gas_sensor_init(FALSE, <<>>)
    /\ result = GAS_SENSOR_OK
    /\ po_result = GAS_SENSOR_OK
    /\ CallerInit

FieldsNext == \E f \in FieldFrames : ParseFrame(f)

SpecFields == FieldsInit /\ [][FieldsNext]_vars

(* ------------------------------------------------------------------ *)
(* Properties of the streaming reader                                   *)
(* ------------------------------------------------------------------ *)
\* C1: whenever gas_sensor_read_frame hands the 21 sync-aligned bytes at the
\* front of the buffer to the decoder, exactly those 21 bytes are gone from the
\* front of the buffer when the call returns, whatever the decoder returned.
C1_CandidateAlwaysConsumed ==
    rd.handed # NULL =>
        /\ rd.removed = GAS_SENSOR_FRAME_SIZE
        /\ rx_buffer = From(rd.at_decode, GAS_SENSOR_FRAME_SIZE)

\* the sensor sends one garbage byte and then one valid frame (id 0..9)
GarbageThenFrame ==
    /\ Len(input) = 1 + GAS_SENSOR_FRAME_SIZE
    /\ SyncOk(From(input, 1))
    /\ ChecksumOk(From(input, 1))
    /\ FrameId(From(input, 1)) \in ValidIds

\* C2: from an empty buffer, one garbage byte followed by one valid frame,
\* however the 22 bytes are split over successive reads: at most one frame is
\* ever handed to the decoder, it is the valid frame, exactly the one garbage
\* byte has been discarded before it, and once the last byte has been read the
\* frame has been extracted and the buffer is empty.
C2_GarbageThenFrameConverges ==
    GarbageThenFrame =>
        /\ Len(decoded) <= 1
        /\ dropped <= 1
        /\ decoded # <<>> => (decoded[1] = From(input, 1) /\ dropped = 1)
        /\ line = <<>> => (decoded = <<From(input, 1)>> /\ rx_buffer = <<>>)

\* the frame was extracted by a read that returned its last byte alone, after
\* the garbage byte had been discarded
C2_Witness ==
    /\ GarbageThenFrame
    /\ line = <<>>
    /\ rd.n = 1
    /\ rd.handed = From(input, 1)
    /\ decoded = <<From(input, 1)>>
    /\ dropped = 1
    /\ rx_buffer = <<>>

(* ------------------------------------------------------------------ *)
(* Properties of the frame decoder and the slow-data aggregate          *)
(* ------------------------------------------------------------------ *)
\* the member of the aggregate that frame id `id` selects
Slot(sd, id) ==
    CASE id = 0 -> sd.insp_vals
      [] id = 1 -> sd.exp_vals
      [] id = 2 -> sd.mom_vals
      [] id = 3 -> sd.gen_vals
      [] id = 4 -> sd.sensor_regs
      [] id = 5 -> sd.config_data
      [] id = 6 -> sd.service_data

\* what a frame's slow-data bytes decode to in the slot of its id
Decoding(id, frame) ==
    Slot(slot_switch(ZeroSlowData, id, From(frame, 14)).slow_data, id)

po_Decoding(id, frame) ==
    Slot(po_dispatch_slow_data(ZeroSlowData, id, From(frame, 13)).slow_data, id)

Parsed == call.op = "parse" /\ IsFrame(call.frame)
ParsedValid == Parsed /\ SyncOk(call.frame) /\ ChecksumOk(call.frame)

OthersKept(old, new, id) == \A j \in SlotIds \ {id} : Slot(new, j) = Slot(old, j)
AllSlotsKept(old, new) == \A j \in SlotIds : Slot(new, j) = Slot(old, j)

\* C3: after a successful decode of a frame with id in 0..6 into an aggregate,
\* every slot other than the one the id selects is as it was before the call
\* and last_frame_id is the id (both revisions).
C3_NonInterference ==
    (Parsed /\ has.sd /\ FrameId(call.frame) \in SlotIds) =>
        /\ result = GAS_SENSOR_OK =>
              /\ OthersKept(before.slow_data, slow_data, FrameId(call.frame))
              /\ slow_data.last_frame_id = FrameId(call.frame)
        /\ po_result = GAS_SENSOR_OK =>
              /\ OthersKept(before.po_slow_data, po_slow_data, FrameId(call.frame))
              /\ po_slow_data.last_frame_id = FrameId(call.frame)

\* a successful decode that rewrote its slot while another slot held decoded data
C3_Witness ==
    /\ Parsed /\ has.sd /\ FrameId(call.frame) \in SlotIds
    /\ result = GAS_SENSOR_OK /\ po_result = GAS_SENSOR_OK
    /\ Slot(slow_data, FrameId(call.frame)) # Slot(before.slow_data, FrameId(call.frame))
    /\ \E j \in SlotIds \ {FrameId(call.frame)} :
          /\ Slot(before.slow_data, j) # Slot(gas_sensor_init_slow_data, j)
          /\ Slot(before.po_slow_data, j) # Slot(po_gas_sensor_init_slow_data, j)

\* C4: every slot holds the decoding of the most recent successfully decoded
\* frame that carried its id, or its init value when no such frame was decoded
\* since the last gas_sensor_init_slow_data (both revisions).
C4_LastKnownValue ==
    \A id \in SlotIds :
        /\ Slot(slow_data, id) =
              IF last_ok[id] = NULL THEN Slot(gas_sensor_init_slow_data, id)
              ELSE Decoding(id, last_ok[id])
        /\ Slot(po_slow_data, id) =
              IF po_last_ok[id] = NULL THEN Slot(po_gas_sensor_init_slow_data, id)
              ELSE po_Decoding(id, po_last_ok[id])

\* a slot that already held a decoded frame is overwritten by a newer frame of
\* the same id
C4_Witness ==
    /\ Parsed /\ has.sd /\ FrameId(call.frame) \in SlotIds
    /\ result = GAS_SENSOR_OK /\ po_result = GAS_SENSOR_OK
    /\ last_ok[FrameId(call.frame)] = call.frame
    /\ Slot(before.slow_data, FrameId(call.frame))
          # Slot(gas_sensor_init_slow_data, FrameId(call.frame))
    /\ Slot(before.slow_data, FrameId(call.frame)) # Slot(slow_data, FrameId(call.frame))

\* C5: a frame with wrong sync bytes is rejected as an invalid frame even when
\* its checksum is wrong too; a frame with right sync bytes and a wrong checksum
\* byte is rejected with the checksum error (both revisions).
C5_ValidationOrder ==
    Parsed =>
        /\ ~SyncOk(call.frame) =>
              /\ result = GAS_SENSOR_ERR_INVALID_FRAME
              /\ po_result = GAS_SENSOR_ERR_INVALID_FRAME
        /\ (SyncOk(call.frame) /\ ~ChecksumOk(call.frame)) =>
              /\ result = GAS_SENSOR_ERR_CHECKSUM
              /\ po_result = GAS_SENSOR_ERR_CHECKSUM

\* a frame with wrong sync bytes and a wrong checksum was rejected
C5_Witness ==
    /\ Parsed /\ ~SyncOk(call.frame) /\ ~ChecksumOk(call.frame)
    /\ result = GAS_SENSOR_ERR_INVALID_FRAME

\* C6: every frame with right sync and checksum whose id byte is >= 10 is
\* rejected as an invalid frame, whichever output pointers are NULL.
C6_BadIdAlwaysRejected ==
    (ParsedValid /\ FrameId(call.frame) >= GAS_SENSOR_FRAME_ID_MAX) =>
        /\ result = GAS_SENSOR_ERR_INVALID_FRAME
        /\ po_result = GAS_SENSOR_ERR_INVALID_FRAME

\* C7: a frame rejected for its id >= 10 leaves the aggregate (slots and
\* last_frame_id), the waveform and the status as they were before the call.
C7_RejectedIdWritesNothing ==
    (ParsedValid /\ FrameId(call.frame) >= GAS_SENSOR_FRAME_ID_MAX) =>
        /\ result = GAS_SENSOR_ERR_INVALID_FRAME =>
              /\ slow_data = before.slow_data
              /\ waveform = before.waveform
              /\ status = before.status
        /\ po_result = GAS_SENSOR_ERR_INVALID_FRAME =>
              /\ po_slow_data = before.po_slow_data
              /\ po_waveform = before.po_waveform
              /\ po_status = before.po_status

\* C8 as claimed: every frame with right sync and checksum decodes with
\* success, whatever its id byte.
C8_ValidAlwaysSucceeds ==
    ParsedValid => (result = GAS_SENSOR_OK /\ po_result = GAS_SENSOR_OK)

\* C8 as amended: every frame with right sync and checksum whose id byte is
\* below 10 decodes with success, whichever output pointers are NULL.
C8_ValidIdSucceeds ==
    (ParsedValid /\ FrameId(call.frame) < GAS_SENSOR_FRAME_ID_MAX) =>
        (result = GAS_SENSOR_OK /\ po_result = GAS_SENSOR_OK)

\* a reserved-id frame with a non-trivial payload was decoded with success
\* into an aggregate
C8_Witness ==
    /\ ParsedValid /\ has.sd /\ has.wf /\ has.st
    /\ FrameId(call.frame) \in {7, 8, 9}
    /\ waveform # ZeroWaveform
    /\ result = GAS_SENSOR_OK /\ po_result = GAS_SENSOR_OK

\* C9 as claimed: a valid frame with reserved id 7..9 decodes with success and
\* leaves all seven slots and last_frame_id as they were.
C9_ReservedKeepsAll ==
    (ParsedValid /\ has.sd /\ FrameId(call.frame) \in {7, 8, 9}) =>
        /\ result = GAS_SENSOR_OK /\ po_result = GAS_SENSOR_OK
        /\ AllSlotsKept(before.slow_data, slow_data)
        /\ AllSlotsKept(before.po_slow_data, po_slow_data)
        /\ slow_data.last_frame_id = before.slow_data.last_frame_id
        /\ po_slow_data.last_frame_id = before.po_slow_data.last_frame_id

\* C9 as amended: a valid frame with reserved id 7..9 decodes with success and
\* leaves all seven slots as they were; last_frame_id becomes the frame's id.
C9_ReservedKeepsSlots ==
    (ParsedValid /\ has.sd /\ FrameId(call.frame) \in {7, 8, 9}) =>
        /\ result = GAS_SENSOR_OK /\ po_result = GAS_SENSOR_OK
        /\ AllSlotsKept(before.slow_data, slow_data)
        /\ AllSlotsKept(before.po_slow_data, po_slow_data)
        /\ slow_data.last_frame_id = FrameId(call.frame)
        /\ po_slow_data.last_frame_id = FrameId(call.frame)

\* a reserved-id frame decoded into an aggregate that already held a decoded slot
C9_Witness ==
    /\ ParsedValid /\ has.sd /\ FrameId(call.frame) \in {7, 8, 9}
    /\ result = GAS_SENSOR_OK
    /\ \E j \in SlotIds : Slot(before.slow_data, j) # Slot(gas_sensor_init_slow_data, j)
    /\ before.slow_data.last_frame_id \in SlotIds

\* C10: for every 21-byte array, sync bytes right or wrong,
\* gas_sensor_verify_checksum returns true exactly when the checksum over
\* bytes 2..19 equals byte 20 (both revisions).
C10_VerifyIsChecksumOnly ==
    (call.op = "verify" /\ IsFrame(call.frame)) =>
        /\ result = ChecksumOk(call.frame)
        /\ po_result = ChecksumOk(call.frame)

(* ------------------------------------------------------------------ *)
(* Properties of the checksum and the value conversions                 *)
(* ------------------------------------------------------------------ *)
\* C11: for every frame the checksum both revisions compute with a 16-bit
\* accumulator is the two's complement, truncated to 8 bits, of the sum of
\* bytes 2..19; it is the byte the protocol's 8-bit wrapping VerifyChecksum
\* gives for those 18 bytes, so it equals byte 20 exactly when bytes 2..20 sum
\* to 0 modulo 256.
C11_ChecksumIsTwosComplement ==
    (call.op = "verify" /\ IsFrame(call.frame)) =>
        /\ calculate_checksum(call.frame)
              = (256 - SumBytes8(From(call.frame, 2), 18)) % 256
        /\ calculate_checksum(call.frame) = VerifyChecksum(From(call.frame, 2), 18)
        /\ po_calculate_checksum(call.frame) = calculate_checksum(call.frame)
        /\ (calculate_checksum(call.frame) = Idx(call.frame, 20))
              <=> (SumBytes8(From(call.frame, 2), 19) = 0)
        /\ result <=> (SumBytes8(From(call.frame, 2), 19) = 0)

\* a frame whose bytes 2..19 sum to more than 255 was verified and accepted
C11_Witness ==
    /\ call.op = "verify" /\ IsFrame(call.frame)
    /\ SumBytes16(call.frame, 2, 20) > 255
    /\ calculate_checksum(call.frame) # 0
    /\ result = TRUE

(* ------------------------------------------------------------------ *)
(* Properties of the decoded views                                      *)
(* ------------------------------------------------------------------ *)
\* the frame of example_parse_raw_frame was decoded into all three outputs
ExampleParsed == Parsed /\ call.frame = ExampleFrame /\ has.sd /\ has.wf /\ has.st

\* C12 as claimed: the example frame decodes with success, frame id 3, a valid
\* checksum and all five waveform concentrations zero.
C12_ExampleWaveformAllZero ==
    ExampleParsed =>
        /\ result = GAS_SENSOR_OK /\ po_result = GAS_SENSOR_OK
        /\ slow_data.last_frame_id = 3 /\ po_slow_data.last_frame_id = 3
        /\ Idx(ExampleFrame, 20) = VerifyChecksum(From(ExampleFrame, 2), 18)
        /\ waveform = ZeroWaveform
        /\ po_waveform = ZeroWaveform

\* C12 as amended: the example frame decodes with success, frame id 3 and a
\* valid checksum; CO2, N2O and both agents are zero and O2 is 16.00 (bytes
\* 12..13 are 06 40).
C12_ExampleDecodes ==
    ExampleParsed =>
        /\ result = GAS_SENSOR_OK /\ po_result = GAS_SENSOR_OK
        /\ slow_data.last_frame_id = 3 /\ po_slow_data.last_frame_id = 3
        /\ Idx(ExampleFrame, 20) = VerifyChecksum(From(ExampleFrame, 2), 18)
        /\ waveform = [ZeroWaveform EXCEPT !.o2 = 16000]
        /\ po_waveform = [ZeroWaveform EXCEPT !.o2 = 16000]

\* the example's own run: gas_sensor_init_slow_data, then the frame decoded
C12_Witness ==
    /\ ExampleParsed
    /\ before.slow_data = gas_sensor_init_slow_data
    /\ result = GAS_SENSOR_OK
    /\ slow_data.gen_vals.resp_rate = 0

\* the big-endian 16-bit word at frame bytes k, k + 1
WordAt(f, k) == Idx(f, k) * 256 + Idx(f, k + 1)

\* a waveform word as a concentration: 0xFFFF is "no data", else raw / 100
Percent2Byte(raw) == IF raw = 65535 THEN GAS_SENSOR_CONC_INVALID ELSE raw * 10

WaveformOf(f) ==
    [co2 |-> Percent2Byte(WordAt(f, 4)), n2o |-> Percent2Byte(WordAt(f, 6)),
     aa1 |-> Percent2Byte(WordAt(f, 8)), aa2 |-> Percent2Byte(WordAt(f, 10)),
     o2  |-> Percent2Byte(WordAt(f, 12))]

\* C13: on a successful decode the five waveform values come from the
\* big-endian words at frame bytes 4-5, 6-7, 8-9, 10-11, 12-13: raw 0xFFFF
\* gives the invalid sentinel, any other raw value gives raw / 100 (both
\* revisions).
C13_WaveformScaling ==
    (Parsed /\ has.wf) =>
        /\ result = GAS_SENSOR_OK => waveform = WaveformOf(call.frame)
        /\ po_result = GAS_SENSOR_OK => po_waveform = WaveformOf(call.frame)

\* C14: for every byte raw, gas_sensor_parse_concentration returns the invalid
\* sentinel when raw = 0xFF and raw / 10.0 otherwise (both revisions); every
\* byte has a result.
C14_OneByteConcentration ==
    call.op = "concentration" =>
        /\ result = IF call.frame[1] = 255 THEN GAS_SENSOR_CONC_INVALID
                    ELSE call.frame[1] * 100
        /\ po_result = IF call.frame[1] = 255 THEN GAS_SENSOR_CONC_INVALID
                       ELSE call.frame[1] * 100

\* bit k of a byte, bit 0 the least significant
Bit(byte, k) == (byte \div (2 ^ k)) % 2 = 1

\* the status summary byte as the protocol document lays it out
StatusOf(sts) ==
    [breath_detected         |-> Bit(sts, 0),
     apnea                   |-> Bit(sts, 1),
     o2_low                  |-> Bit(sts, 2),
     o2_replace              |-> Bit(sts, 3),
     check_adapter           |-> Bit(sts, 4),
     accuracy_out_of_range   |-> Bit(sts, 5),
     sensor_error            |-> Bit(sts, 6),
     o2_calibration_required |-> Bit(sts, 7)]

\* C15: on a successful decode each of the eight status flags is one bit of
\* frame byte 3 (breath_detected bit 0 ... o2_calibration_required bit 7),
\* whatever the other bits and the other bytes are (both revisions).
C15_StatusBits ==
    (Parsed /\ has.st) =>
        /\ result = GAS_SENSOR_OK => status = StatusOf(Idx(call.frame, 3))
        /\ po_result = GAS_SENSOR_OK => po_status = StatusOf(Idx(call.frame, 3))

\* a frame with the single status bit APNEA set was decoded over a status
\* that held other flags
C15_Witness ==
    /\ Parsed /\ has.st
    /\ result = GAS_SENSOR_OK /\ po_result = GAS_SENSOR_OK
    /\ Idx(call.frame, 3) = 2
    /\ before.status.breath_detected /\ ~status.breath_detected
    /\ status.apnea /\ ~status.o2_low

\* the slow-data payload of a frame: the 6 bytes after the 10 waveform bytes
SlowPayload(f) == SubSeq(f, 15, 20)

\* C16: the variant decoded for ids 0..6 is decoded from frame bytes 14..19
\* alone, so no waveform byte (4..13) has a part in it (both revisions).
C16_SlowPayloadBytes ==
    (Parsed /\ has.sd /\ FrameId(call.frame) \in SlotIds) =>
        /\ result = GAS_SENSOR_OK =>
              Slot(slow_data, FrameId(call.frame)) =
                 Slot(slot_switch(ZeroSlowData, FrameId(call.frame),
                                  SlowPayload(call.frame)).slow_data,
                      FrameId(call.frame))
        /\ po_result = GAS_SENSOR_OK =>
              Slot(po_slow_data, FrameId(call.frame)) =
                 Slot(po_dispatch_slow_data(ZeroSlowData, FrameId(call.frame),
                                            SlowPayload(call.frame)).slow_data,
                      FrameId(call.frame))

\* every concentration and numeric field of an aggregate holds its sentinel
\* and last_frame_id holds 0xFF
AllSentinels(sd) ==
    /\ sd.last_frame_id = 255
    /\ sd.insp_vals = ConcInvalid5
    /\ sd.exp_vals = ConcInvalid5
    /\ sd.mom_vals = ConcInvalid5
    /\ sd.gen_vals.resp_rate = GAS_SENSOR_NO_DATA
    /\ sd.gen_vals.time_since_breath = GAS_SENSOR_NO_DATA
    /\ sd.gen_vals.atm_pressure = GAS_SENSOR_CONC_INVALID

\* C17: after gas_sensor_init_slow_data, whatever the aggregate held before,
\* every concentration and the pressure hold the invalid float sentinel,
\* resp_rate and time_since_breath hold 0xFF and last_frame_id holds 0xFF
\* (both revisions).
C17_InitSentinels ==
    call.op = "init" => (AllSentinels(slow_data) /\ AllSentinels(po_slow_data))

\* C18: in every state of an initialised aggregate, after any sequence of
\* decode calls with any results, last_frame_id is the value the revision's
\* gas_sensor_init_slow_data stored or a frame id in 0..9.
C18_LastFrameIdInRange ==
    /\ slow_data.last_frame_id
          \in {gas_sensor_init_slow_data.last_frame_id} \cup ValidIds
    /\ po_slow_data.last_frame_id
          \in {po_gas_sensor_init_slow_data.last_frame_id} \cup ValidIds

(* ------------------------------------------------------------------ *)
(* Properties of the streaming reader under overflow                    *)
(* ------------------------------------------------------------------ *)
\* the valid frame the sensor sends after the flood
FloodFrame == From(input, Len(GarbageFlood))

\* the 21 bytes of f lie somewhere in the buffer
InBuffer(f) ==
    \E k \in 0 .. rx_buffer_len - GAS_SENSOR_FRAME_SIZE :
        SubSeq(rx_buffer, k + 1, k + GAS_SENSOR_FRAME_SIZE) = f

\* the fill length after the append and at the return of the call is within
\* the buffer
FillInBounds ==
    /\ rx_buffer_len \in 0 .. RX_BUFFER_SIZE
    /\ rd.fill \in 0 .. RX_BUFFER_SIZE

\* C19 as claimed: whatever the reads deliver, the fill length stays within
\* 0..256, and once the valid frame that follows the garbage has been read,
\* however it was split over the reads, it has been extracted or still lies
\* whole in the buffer.
C19_FloodedFrameExtracted ==
    /\ FillInBounds
    /\ line = <<>> =>
          \/ \E i \in 1 .. Len(decoded) : decoded[i] = FloodFrame
          \/ InBuffer(FloodFrame)

\* C19 as amended: whatever the reads deliver, the fill length stays within
\* 0..256, and a valid frame that one read delivers whole after the garbage is
\* extracted by that call.
C19_FloodBoundedFrameInOneRead ==
    /\ FillInBounds
    /\ (call.op = "read" /\ line = <<>> /\ rd.n = GAS_SENSOR_FRAME_SIZE) =>
          /\ rd.handed = FloodFrame
          /\ rd.parse_result = GAS_SENSOR_OK
          /\ decoded = <<FloodFrame>>
          /\ rx_buffer = <<>>

\* the read that delivered the frame found 255 garbage bytes in the buffer,
\* overflowed it and extracted the frame
C19_Witness ==
    /\ call.op = "read" /\ line = <<>> /\ rd.n = GAS_SENSOR_FRAME_SIZE
    /\ Len(before.rx_buffer) = RX_BUFFER_SIZE - 1
    /\ rd.overflow
    /\ rd.handed = FloodFrame
    /\ result = GAS_SENSOR_OK

\* C20: a read whose bytes would make the buffer exceed 256 bytes discards
\* the whole previous contents (the fill after the append is the number of
\* bytes read) and reports the loss in that call: it returns neither success
\* nor the need-more-data value.
C20_OverflowReported ==
    (call.op = "read" /\ rd.overflow) =>
        /\ rd.fill = rd.n
        /\ result \notin {GAS_SENSOR_OK, GAS_SENSOR_ERR_SERIAL_READ}

(* ------------------------------------------------------------------ *)
(* Properties of alignment, callback and return values of the reader    *)
(* ------------------------------------------------------------------ *)
\* C21: whenever gas_sensor_read_frame calls the decoder, the buffer starts
\* with 0xAA 0x55 and holds at least 21 bytes, the decoder is given the first
\* 21 of them, and its sync check does not fail.
C21_DecoderSeesAlignedCandidate ==
    rd.handed # NULL =>
        /\ Len(rd.at_decode) >= GAS_SENSOR_FRAME_SIZE
        /\ SyncOk(rd.at_decode)
        /\ rd.handed = SubSeq(rd.at_decode, 1, GAS_SENSOR_FRAME_SIZE)
        /\ validate_frame(rd.handed) # GAS_SENSOR_ERR_INVALID_FRAME

\* the decoder was called after garbage that contains a lone 0xAA had been
\* skipped, with more than one frame's worth of bytes in the buffer
C21_Witness ==
    /\ rd.handed # NULL
    /\ rd.skipped >= 2
    /\ SyncOk(rd.handed)
    /\ \E i \in 1 .. rd.skipped : input[i] = GAS_SENSOR_FLAG1

\* the bytes read() returned in the last call, and the buffer right after
\* they were appended
ReadBytes ==
    SubSeq(input, Len(input) - Len(line) - rd.n + 1, Len(input) - Len(line))

AfterAppend == IF rd.overflow THEN ReadBytes ELSE before.rx_buffer \o ReadBytes

NoSync(b) ==
    \A i \in 1 .. Len(b) - 1 : ~(b[i] = GAS_SENSOR_FLAG1 /\ b[i + 1] = GAS_SENSOR_FLAG2)

\* the last call was a read that got as far as the append
Appended == call.op = "read" /\ rd.fill = Len(AfterAppend)

\* C22: when the buffer holds no 0xAA 0x55 after the append: with fewer than 2
\* bytes it is left as it is and the call returns the need-more-data value;
\* with 2 or more bytes exactly the first byte is removed, the others keep
\* their order (a trailing 0xAA stays), nothing is handed to the decoder and
\* the call returns GAS_SENSOR_ERR_INVALID_FRAME.
C22_NoSyncDropsOneByte ==
    (Appended /\ NoSync(AfterAppend)) =>
        IF Len(AfterAppend) < 2
        THEN /\ rx_buffer = AfterAppend
             /\ rd.skipped = 0
             /\ result = GAS_SENSOR_ERR_SERIAL_READ
        ELSE /\ rx_buffer = Tail(AfterAppend)
             /\ rd.skipped = 1
             /\ rd.handed = NULL
             /\ result = GAS_SENSOR_ERR_INVALID_FRAME

\* two bytes without sync whose last is 0xAA: the 0xAA is what remains
C22_Witness ==
    /\ Appended /\ NoSync(AfterAppend)
    /\ Len(AfterAppend) = 2
    /\ AfterAppend[2] = GAS_SENSOR_FLAG1
    /\ rx_buffer = <<GAS_SENSOR_FLAG1>>

\* offset of the first 0xAA 0x55 in b
FirstSync(b) ==
    CHOOSE k \in 0 .. Len(b) - 2 :
        /\ b[k + 1] = GAS_SENSOR_FLAG1 /\ b[k + 2] = GAS_SENSOR_FLAG2
        /\ NoSync(SubSeq(b, 1, k + 1))

\* C23: when the first 0xAA 0x55 of the buffer is at offset k > 0, exactly the
\* k leading bytes are discarded: the buffer the call goes on with (the one it
\* keeps when fewer than 21 bytes remain, the one the decoder is called on
\* otherwise) is every byte from the sync marker onward, in order.
C23_AlignmentKeepsFromSync ==
    (Appended /\ ~NoSync(AfterAppend) /\ FirstSync(AfterAppend) > 0) =>
        /\ rd.skipped = FirstSync(AfterAppend)
        /\ IF Len(AfterAppend) - FirstSync(AfterAppend) < GAS_SENSOR_FRAME_SIZE
           THEN /\ rx_buffer = From(AfterAppend, FirstSync(AfterAppend))
                /\ rd.handed = NULL
           ELSE rd.at_decode = From(AfterAppend, FirstSync(AfterAppend))

\* three garbage bytes were discarded and the part of the frame that has
\* arrived is at the front of the buffer
C23_Witness ==
    /\ Appended /\ ~NoSync(AfterAppend)
    /\ FirstSync(AfterAppend) = 3
    /\ rd.skipped = 3
    /\ Len(rx_buffer) \in 2 .. GAS_SENSOR_FRAME_SIZE - 1
    /\ SyncOk(rx_buffer)

RECURSIVE Flatten(_)
\* the frames of a sequence laid end to end
Flatten(frames) ==
    IF frames = <<>> THEN <<>> ELSE Head(frames) \o Flatten(Tail(frames))

\* a frame the decoder accepts: sync, checksum and an id of 0..9
DecodesOk(f) == SyncOk(f) /\ ChecksumOk(f) /\ FrameId(f) \in ValidIds

\* the sensor sends two frames back to back and the decoder accepts both
TwoGoodFrames ==
    /\ Len(input) = 2 * GAS_SENSOR_FRAME_SIZE
    /\ DecodesOk(SubSeq(input, 1, GAS_SENSOR_FRAME_SIZE))
    /\ DecodesOk(From(input, GAS_SENSOR_FRAME_SIZE))

\* C24: the registered callback has been invoked once for each frame that
\* decoded with success, in order, and for nothing else: never in a call that
\* returns need-more-data, a skip, a checksum or a frame-id error. A call
\* whose callback returns non-zero returns GAS_SENSOR_ERR_CALLBACK with the
\* frame consumed and merged, and the frames that follow are still extracted:
\* of two good frames the decoded ones, the buffer and the unread bytes are
\* the stream in order, and a call that extracts nothing leaves less than a
\* frame in the buffer, whatever the callback returned before.
C24_CallbackOncePerGoodFrame ==
    /\ [i \in 1 .. Len(callbacks) |-> callbacks[i].frame]
          = IF h_callback THEN SelectSeq(decoded, DecodesOk) ELSE <<>>
    /\ result \in {GAS_SENSOR_ERR_SERIAL_READ, GAS_SENSOR_ERR_INVALID_FRAME,
                   GAS_SENSOR_ERR_CHECKSUM} => rd.callback = "none"
    /\ rd.callback = "ok" => result = GAS_SENSOR_OK
    /\ rd.callback = "fail" =>
          /\ result = GAS_SENSOR_ERR_CALLBACK
          /\ rx_buffer = From(rd.at_decode, GAS_SENSOR_FRAME_SIZE)
          /\ h_slow_data.last_frame_id = FrameId(rd.handed)
          /\ FrameId(rd.handed) \in SlotIds =>
                Slot(h_slow_data, FrameId(rd.handed))
                   = Decoding(FrameId(rd.handed), rd.handed)
    /\ TwoGoodFrames =>
          /\ Flatten(decoded) \o rx_buffer \o line = input
          /\ (Appended /\ rd.handed = NULL) => rx_buffer_len < GAS_SENSOR_FRAME_SIZE

\* the callback failed on the first of two good frames and the second frame
\* was extracted by a later call and reached the callback as well
C24_Witness ==
    /\ TwoGoodFrames
    /\ Len(callbacks) = 2
    /\ callbacks[1].ret = "fail"
    /\ callbacks[2].frame = From(input, GAS_SENSOR_FRAME_SIZE)
    /\ rd.n = 1
    /\ rx_buffer = <<>>

\* C25: whenever the callback is invoked, its three pointers address the
\* data of the frame just decoded: the aggregate of the handle, already
\* updated with that frame, and the waveform and the status decoded from that
\* frame, whichever output pointers gas_sensor_read_frame was given.
C25_CallbackGetsCurrentData ==
    rd.callback # "none" =>
        /\ rd.cb_args.slow_data = {h_slow_data}
        /\ h_slow_data.last_frame_id = FrameId(rd.handed)
        /\ rd.cb_args.waveform = {parse_waveform(rd.handed)}
        /\ rd.cb_args.status = {parse_status(Idx(rd.handed, 3))}

\* the last call read bytes and found no complete frame: fewer than 2 bytes
\* and no sync, or fewer than 21 bytes from the first sync on
NoCompleteFrame ==
    /\ Appended /\ rd.n > 0
    /\ IF NoSync(AfterAppend)
       THEN Len(AfterAppend) < 2
       ELSE Len(AfterAppend) - FirstSync(AfterAppend) < GAS_SENSOR_FRAME_SIZE

\* C26: a read that finds no complete frame in the buffer returns a value that
\* differs from the one a failed serial read returns.
C26_NeedMoreDataIsNoError ==
    NoCompleteFrame => result # GAS_SENSOR_ERR_SERIAL_READ

\* C27: a call of gas_sensor_read_frame whose serial read did not fail returns
\* only once a complete 21-byte frame has been received and handed to the
\* decoder.
C27_ReturnsOnlyWithFrame ==
    (call.op = "read" /\ rd.n > 0) => rd.handed # NULL

\* the buffer held a complete sync-aligned frame when the last call began
FrameWasBuffered ==
    /\ Len(before.rx_buffer) >= GAS_SENSOR_FRAME_SIZE
    /\ SyncOk(before.rx_buffer)

\* C28: a call of gas_sensor_read_frame that gets no new byte still processes
\* the buffer: a complete sync-aligned frame already buffered is handed to the
\* decoder in that call.
C28_ZeroBytesStillExtracts ==
    (call.op = "read" /\ rd.n = 0 /\ FrameWasBuffered) =>
        rd.handed = SubSeq(before.rx_buffer, 1, GAS_SENSOR_FRAME_SIZE)

(* ------------------------------------------------------------------ *)
(* Determinism of the frame decoder                                     *)
(* ------------------------------------------------------------------ *)
\* one cell of the outputs after two decode calls on the same bytes, one begun
\* with the cell at `old`, the other with the cell at `fresh`: both calls
\* wrote the same value, or neither wrote
SameWrite(actual, ref, old, fresh) ==
    actual = ref \/ (actual = old /\ ref = fresh)

\* the decode of the last call's frame begun from freshly initialised objects
FreshDecode ==
    gas_sensor_parse_frame(call.frame, gas_sensor_init_slow_data, ZeroWaveform,
                           ZeroStatus, has.sd, has.wf, has.st)

po_FreshDecode ==
    po_gas_sensor_parse_frame(call.frame, po_gas_sensor_init_slow_data, ZeroWaveform,
                              ZeroStatus, has.sd, has.wf, has.st)

\* C29: a decode call on 21 bytes, whatever the aggregate, waveform and status
\* held before it, returns the same result and writes the same waveform,
\* status, last_frame_id and slot value as a decode of the same bytes begun
\* from freshly initialised objects (both revisions).
C29_DecoderDeterministic ==
    Parsed =>
        /\ result = FreshDecode.result
        /\ SameWrite(waveform, FreshDecode.waveform, before.waveform, ZeroWaveform)
        /\ SameWrite(status, FreshDecode.status, before.status, ZeroStatus)
        /\ SameWrite(slow_data.last_frame_id, FreshDecode.slow_data.last_frame_id,
                     before.slow_data.last_frame_id,
                     gas_sensor_init_slow_data.last_frame_id)
        /\ FrameId(call.frame) \in SlotIds =>
              SameWrite(Slot(slow_data, FrameId(call.frame)),
                        Slot(FreshDecode.slow_data, FrameId(call.frame)),
                        Slot(before.slow_data, FrameId(call.frame)),
                        Slot(gas_sensor_init_slow_data, FrameId(call.frame)))
        /\ po_result = po_FreshDecode.result
        /\ SameWrite(po_waveform, po_FreshDecode.waveform, before.po_waveform,
                     ZeroWaveform)
        /\ SameWrite(po_status, po_FreshDecode.status, before.po_status, ZeroStatus)
        /\ SameWrite(po_slow_data.last_frame_id, po_FreshDecode.slow_data.last_frame_id,
                     before.po_slow_data.last_frame_id,
                     po_gas_sensor_init_slow_data.last_frame_id)
        /\ FrameId(call.frame) \in SlotIds =>
              SameWrite(Slot(po_slow_data, FrameId(call.frame)),
                        Slot(po_FreshDecode.slow_data, FrameId(call.frame)),
                        Slot(before.po_slow_data, FrameId(call.frame)),
                        Slot(po_gas_sensor_init_slow_data, FrameId(call.frame)))

\* a frame was decoded with success into objects that an earlier frame of the
\* same id and another payload had filled
C29_Witness ==
    /\ Parsed /\ has.sd /\ has.wf /\ has.st
    /\ result = GAS_SENSOR_OK /\ po_result = GAS_SENSOR_OK
    /\ FrameId(call.frame) = 3
    /\ before.slow_data.last_frame_id = 3
    /\ before.slow_data.gen_vals # slow_data.gen_vals
    /\ before.po_slow_data.gen_vals # po_slow_data.gen_vals
    /\ before.waveform # waveform
    /\ before.status # status

(* ------------------------------------------------------------------ *)
(* Properties of the streaming reader on back-to-back frames            *)
(* ------------------------------------------------------------------ *)
\* the sensor has sent nothing but valid frames with ids 0..9, back to back
BackToBackFrames ==
    /\ Len(input) % GAS_SENSOR_FRAME_SIZE = 0
    /\ \A k \in 0 .. (Len(input) \div GAS_SENSOR_FRAME_SIZE) - 1 :
          DecodesOk(SubSeq(input, k * GAS_SENSOR_FRAME_SIZE + 1,
                           (k + 1) * GAS_SENSOR_FRAME_SIZE))

\* C30: on a stream of back-to-back valid frames read in chunks of 0..128
\* bytes no frame is lost and each is decoded once, in stream order: the
\* frames handed to the decoder so far, the buffer and the bytes not yet read
\* are, end to end, the stream.
C30_NoFrameLost ==
    BackToBackFrames => Flatten(decoded) \o rx_buffer \o line = input

(* ------------------------------------------------------------------ *)
(* Properties of the streaming reader after a damaged start             *)
(* ------------------------------------------------------------------ *)
\* the last frame the sensor sent
LastFrame == From(input, Len(input) - GAS_SENSOR_FRAME_SIZE)

\* every byte has been read and the buffer holds less than a frame
StreamDone == line = <<>> /\ rx_buffer_len < GAS_SENSOR_FRAME_SIZE

\* C31: after damaged bytes followed by valid back-to-back frames, read at
\* most 21 bytes per call, the reader locks onto the frame boundaries again,
\* also when the frames hold 0xAA 0x55 in their payload: once the stream has
\* been read and processed, its last frame has been handed to the decoder.
C31_RelocksOnFrames ==
    StreamDone => \E i \in 1 .. Len(decoded) : decoded[i] = LastFrame

(* ------------------------------------------------------------------ *)
(* One frame per call, in stream order                                  *)
(* ------------------------------------------------------------------ *)
\* offset in the stream of the first byte of the buffer
StreamOffset == Len(input) - Len(line) - rx_buffer_len

\* what one call of gas_sensor_read_frame does with the frames in the buffer
OneFramePerCall ==
    /\ Len(decoded') <= Len(decoded) + 1
    /\ StreamOffset' >= StreamOffset
    /\ rd'.removed \in {0, GAS_SENSOR_FRAME_SIZE}
    /\ rd'.handed = NULL => rd'.removed = 0
    /\ rd'.handed # NULL =>
          /\ StreamOffset' - rd'.removed >= StreamOffset
          /\ rd'.handed = SubSeq(input, StreamOffset' - rd'.removed + 1,
                                 StreamOffset' - rd'.removed + GAS_SENSOR_FRAME_SIZE)
          /\ rx_buffer' = From(rd'.at_decode, rd'.removed)

BadFrame ==
    IF call.frame = NULL THEN TRUE
    ELSE ~SyncOk(call.frame) \/ ~ChecksumOk(call.frame)

\* C33: a decode call on a NULL frame, a frame with a wrong sync byte or a
\* frame with a wrong checksum, and any call that returns the NULL-parameter
\* or the checksum error, writes nothing: the aggregate with all its slots and
\* last_frame_id, the waveform and the status are as before the call (both
\* revisions).
C33_RejectedWritesNothing ==
    call.op = "parse" =>
        /\ (BadFrame \/ result \in {GAS_SENSOR_ERR_NULL_PARAM, GAS_SENSOR_ERR_CHECKSUM}) =>
              /\ result \in {GAS_SENSOR_ERR_NULL_PARAM, GAS_SENSOR_ERR_INVALID_FRAME,
                             GAS_SENSOR_ERR_CHECKSUM}
              /\ slow_data = before.slow_data
              /\ waveform = before.waveform
              /\ status = before.status
        /\ (BadFrame \/ po_result \in {GAS_SENSOR_ERR_NULL_PARAM, GAS_SENSOR_ERR_CHECKSUM}) =>
              /\ po_result \in {GAS_SENSOR_ERR_NULL_PARAM, GAS_SENSOR_ERR_INVALID_FRAME,
                                GAS_SENSOR_ERR_CHECKSUM}
              /\ po_slow_data = before.po_slow_data
              /\ po_waveform = before.po_waveform
              /\ po_status = before.po_status

\* a frame with a wrong checksum was rejected after an earlier frame had
\* filled the aggregate, the waveform and the status
C33_Witness ==
    /\ call.op = "parse" /\ has.sd /\ has.wf /\ has.st
    /\ call.frame # NULL
    /\ SyncOk(call.frame) /\ ~ChecksumOk(call.frame)
    /\ result = GAS_SENSOR_ERR_CHECKSUM /\ po_result = GAS_SENSOR_ERR_CHECKSUM
    /\ slow_data # gas_sensor_init_slow_data
    /\ waveform # ZeroWaveform
    /\ status # ZeroStatus
    /\ waveform # parse_waveform(call.frame)

(* ------------------------------------------------------------------ *)
(* The caller's slow_data and the aggregate of the handle               *)
(* ------------------------------------------------------------------ *)
\* the last read call handed a frame to the decoder and the decode succeeded
ReadDecoded == rd.handed # NULL /\ rd.parse_result = GAS_SENSOR_OK

\* C34: gas_sensor_read_frame writes the caller's slow_data only in a call in
\* which a frame decoded with success, and after such a call it equals the
\* aggregate of the handle; in every other call (need-more-data, skip,
\* checksum error, frame-id error) the caller's slow_data is untouched and the
\* seven slots of the handle's aggregate are unchanged.
C34_CallerSlowDataOnlyOnSuccess ==
    call.op = "read" =>
        /\ (ReadDecoded /\ has.sd) => slow_data = h_slow_data
        /\ ~has.sd => slow_data = before.slow_data
        /\ ~ReadDecoded =>
              /\ slow_data = before.slow_data
              /\ AllSlotsKept(before.h_slow_data, h_slow_data)

\* after a frame that failed its checksum, the next frame decoded and the
\* caller's slow_data was brought up to the aggregate
C34_Witness ==
    /\ call.op = "read" /\ has.sd /\ ReadDecoded
    /\ Len(decoded) = 2
    /\ ~ChecksumOk(decoded[1])
    /\ slow_data = h_slow_data
    /\ slow_data # before.slow_data

(* ------------------------------------------------------------------ *)
(* The Zephyr wrapper's mutex                                           *)
(* ------------------------------------------------------------------ *)
ConsumerHolds == [owner |-> "consumer", lock_count |-> 1]

\* one step of the two threads seen from the thread that holds the pointers
HeldDataStable ==
    /\ (pc.consumer = "holding" /\ pc'.consumer = "holding") =>
          UNCHANGED <<slow_data, waveform, status>>
    /\ pc'.consumer = "holding" => lock' = ConsumerHolds
    /\ (pc.consumer = "holding" /\ pc'.consumer = "idle") => lock' = k_mutex_init
    /\ pc'.consumer \in {"idle", "lock", "einval"} => lock'.owner # "consumer"
    /\ <<slow_data, waveform, status>>' # <<slow_data, waveform, status>> =>
          lock = [owner |-> "reader", lock_count |-> 1]

\* C35: with a thread that calls zephyr_gas_sensor_read again and again and a
\* thread between a successful zephyr_gas_sensor_get_data and its
\* zephyr_gas_sensor_release, the shared slow_data, waveform and status are
\* not written while the second thread holds the pointers, and the lock taken
\* by get_data is given back by exactly one unlock in release.
C35_NoWriteWhileHeld == [][HeldDataStable]_vars

\* the second thread holds the pointers to data of an earlier frame while the
\* reading thread waits in k_mutex_lock with the next frame on the line
C35_Witness ==
    /\ pc.consumer = "holding"
    /\ pc.reader = "lock"
    /\ lock = ConsumerHolds
    /\ decoded # <<>>
    /\ waveform # ZeroWaveform
    /\ Len(line) >= GAS_SENSOR_FRAME_SIZE

(* ------------------------------------------------------------------ *)
(* The fields of GenVals, SensorRegs and ConfigData                     *)
(* ------------------------------------------------------------------ *)
\* a valid frame with the given id was decoded into the aggregate
FieldsOf(id) == ParsedValid /\ has.sd /\ FrameId(call.frame) = id

\* C36: for a valid id-3 frame whose slow bytes 4 (HI) and 5 (LO) hold a word
\* v of the documented range 500..1300, the decoded atm_pressure is v / 10 kPa
\* and is not the invalid marker (both revisions; thousandths of a kPa).
C36_PressureInRange ==
    (FieldsOf(3) /\ WordAt(call.frame, 18) \in 500 .. 1300) =>
        /\ result = GAS_SENSOR_OK
        /\ slow_data.gen_vals.atm_pressure = WordAt(call.frame, 18) * 100
        /\ po_result = GAS_SENSOR_OK
        /\ po_slow_data.gen_vals.atm_pressure = WordAt(call.frame, 18) * 100

\* the registers of id 4 as the protocol document lays them out over the six
\* slow bytes p; byte 1 is reserved
SensorRegsOf(p) ==
    [mode |-> Idx(p, 0) % 8,
     error |-> [sw_error     |-> Bit(Idx(p, 2), 0),
                hw_error     |-> Bit(Idx(p, 2), 1),
                motor_fail   |-> Bit(Idx(p, 2), 2),
                uncalibrated |-> Bit(Idx(p, 2), 3)],
     adapter |-> [replace_adapter |-> Bit(Idx(p, 3), 0),
                  no_adapter      |-> Bit(Idx(p, 3), 1),
                  o2_clogged      |-> Bit(Idx(p, 3), 2)],
     data_valid |-> [co2_out_of_range          |-> Bit(Idx(p, 4), 0),
                     n2o_out_of_range          |-> Bit(Idx(p, 4), 1),
                     agent_out_of_range        |-> Bit(Idx(p, 4), 2),
                     o2_out_of_range           |-> Bit(Idx(p, 4), 3),
                     temp_out_of_range         |-> Bit(Idx(p, 4), 4),
                     pressure_out_of_range     |-> Bit(Idx(p, 4), 5),
                     zero_calibration_required |-> Bit(Idx(p, 4), 6)]]

\* C37: for a valid id-4 frame, mode is bits 2..0 of slow byte 0, the error
\* flags are bits 0..3 of slow byte 2, the adapter flags bits 0..2 of slow
\* byte 3 and the data-valid flags bits 0..6 of slow byte 4; slow byte 1 has
\* no part in any decoded field (both revisions).
C37_SensorRegsLayout ==
    FieldsOf(4) =>
        /\ result = GAS_SENSOR_OK
        /\ slow_data.sensor_regs = SensorRegsOf(SlowPayload(call.frame))
        /\ po_result = GAS_SENSOR_OK
        /\ po_slow_data.sensor_regs = SensorRegsOf(SlowPayload(call.frame))

\* the configuration data of id 5 as the protocol document lays them out
\* over the six slow bytes p
ConfigDataOf(p) ==
    [o2_fitted          |-> Bit(Idx(p, 0), 0),
     co2_fitted         |-> Bit(Idx(p, 0), 1),
     n2o_fitted         |-> Bit(Idx(p, 0), 2),
     halothane_fitted   |-> Bit(Idx(p, 0), 3),
     enflurane_fitted   |-> Bit(Idx(p, 0), 4),
     isoflurane_fitted  |-> Bit(Idx(p, 0), 5),
     sevoflurane_fitted |-> Bit(Idx(p, 0), 6),
     desflurane_fitted  |-> Bit(Idx(p, 0), 7),
     hw_revision        |-> Idx(p, 1),
     sw_revision        |-> Idx(p, 2) * 256 + Idx(p, 3),
     id_config          |-> Bit(Idx(p, 4), 0),
     comm_protocol_rev  |-> Idx(p, 5)]

\* C38: for a valid id-5 frame, the eight fitted flags are bits 0..7 of slow
\* byte 0, hw_revision is slow byte 1, sw_revision the big-endian word of slow
\* bytes 2..3, id_config bit 0 of slow byte 4 (configuration register 1) and
\* comm_protocol_rev slow byte 5 (both revisions).
C38_ConfigDataLayout ==
    FieldsOf(5) =>
        /\ result = GAS_SENSOR_OK
        /\ slow_data.config_data = ConfigDataOf(SlowPayload(call.frame))
        /\ po_result = GAS_SENSOR_OK
        /\ po_slow_data.config_data = ConfigDataOf(SlowPayload(call.frame))

(* ------------------------------------------------------------------ *)
(* The two definitions of gas_sensor_parse_frame                        *)
(* ------------------------------------------------------------------ *)
\* C39: the parse-only and the handle-based gas_sensor_parse_frame agree on
\* validation: on every 21-byte frame and for every NULL / non-NULL choice of
\* slow_data, waveform and status they return the same result code, and the
\* status they leave behind has the same eight flags.
C39_RevisionsAgreeOnValidation ==
    Parsed =>
        /\ result = po_result
        /\ has.st => status = po_status

\* both revisions accepted a frame and wrote a status that was not there before
C39_Witness ==
    /\ ParsedValid /\ has.st /\ ~has.sd
    /\ result = GAS_SENSOR_OK /\ po_result = GAS_SENSOR_OK
    /\ status = parse_status(Idx(call.frame, 3))
    /\ status # before.status
    /\ status # ZeroStatus
    /\ status = po_status

====
